---------------------------- MODULE Spec2Model ----------------------------
(***************************************************************************)
(* A model of the NetNeurons matrix engine (ESN/src): the dense buffer     *)
(* kernel StaticMatrix<T> and the copy-on-write handle Matrix<T>.          *)
(*                                                                         *)
(* The element type T is instantiated with the exact rationals: a value is *)
(* a pair <<p, q>> in lowest terms with q > 0.  A kernel matrix is a       *)
(* record [m, n, data] whose data is a function on 0 .. m*n-1, row-major   *)
(* as in the source (element (i, j) at offset i*n + j).                    *)
(***************************************************************************)
EXTENDS Integers, Sequences, FiniteSets, TLC

VARIABLES
    hp,     \* Matrix::_p of every handle: Dead, NULL or a Data id
    heap,   \* the Data blocks: [live, n (refcount), d (the StaticMatrix)]
    fault,  \* "none", or the failure the last call ended in
    last,   \* the last call made: its name, its arguments, the values before it
    nops,   \* number of calls made so far
    pc,     \* phase of a scripted run: "idle", or "start" then "blocks"
    input,  \* the inputs of a run on the kernel alone
    output  \* the value a call returned, or the cells a run has covered

vars == <<hp, heap, fault, last, nops, pc, input, output>>

(***************************************************************************)
(* Element type T: exact rational arithmetic.                              *)
(***************************************************************************)
Abs(x) == IF x < 0 THEN -x ELSE x

RECURSIVE Gcd(_, _)
Gcd(a, b) == IF b = 0 THEN a ELSE Gcd(b, a % b)

\* What a division by zero yields.  Infinities and NaN are not told apart:
\* the value absorbs arithmetic and compares above every finite value.
NonFinite == <<1, 0>>

Rat(p, q) ==
    IF q = 0 THEN NonFinite
    ELSE LET s == IF q < 0 THEN -1 ELSE 1
             g == Gcd(Abs(p), Abs(q))
         IN  <<(s * p) \div g, (s * q) \div g>>

Zero == <<0, 1>>
One  == <<1, 1>>
RInt(i) == <<i, 1>>

RAdd(a, b) == Rat(a[1] * b[2] + b[1] * a[2], a[2] * b[2])
RSub(a, b) == Rat(a[1] * b[2] - b[1] * a[2], a[2] * b[2])
RMul(a, b) == Rat(a[1] * b[1], a[2] * b[2])
RDiv(a, b) == Rat(a[1] * b[2], a[2] * b[1])
RNeg(a)    == Rat(-a[1], a[2])
RGt(a, b)  == a[1] * b[2] > b[1] * a[2]
ABS(a)     == <<Abs(a[1]), a[2]>>

(***************************************************************************)
(* StaticMatrix<T>: construction and the trivial operations.               *)
(***************************************************************************)
\* Contents of a new T[size] before anything is written to it.
Raw(size) == [x \in 0 .. size - 1 |-> Zero]

RECURSIVE FillRow(_, _, _)
\* while (n) _data[--n] = value;
FillRow(data, n, value) ==
    IF n = 0 THEN data ELSE FillRow([data EXCEPT ![n - 1] = value], n - 1, value)

RECURSIVE CopyRows(_, _, _, _)
\* while (--m) memcpy(&_data[n -= _n], _data, _n * sizeof(T));
CopyRows(data, m, n, cols) ==
    IF m - 1 = 0 THEN data
    ELSE LET at == n - cols
         IN  CopyRows([x \in DOMAIN data |->
                          IF x >= at /\ x < at + cols THEN data[x - at] ELSE data[x]],
                      m - 1, at, cols)

\* StaticMatrix(int m, int n, T value)
StaticMatrix_value(m, n, value) ==
    [m |-> m, n |-> n,
     data |-> CopyRows(FillRow(Raw(m * n), n, value), m, m * n, n)]

\* StaticMatrix(int m, int n): memset to 0
StaticMatrix_zero(m, n) == [m |-> m, n |-> n, data |-> [x \in 0 .. m * n - 1 |-> Zero]]

\* StaticMatrix(const StaticMatrix &other): memcpy of the whole buffer
StaticMatrix_copy(other) == [m |-> other.m, n |-> other.n, data |-> other.data]

\* StaticMatrix::fill(T value)
StaticMatrix_fill(M, value) ==
    [M EXCEPT !.data = CopyRows(FillRow(M.data, M.n, value), M.m, M.m * M.n, M.n)]

\* StaticMatrix::fillZero()
StaticMatrix_fillZero(M) == [M EXCEPT !.data = [x \in DOMAIN M.data |-> Zero]]

RECURSIVE AddIdentityLoop(_, _, _)
\* while (min) _data[min -= step] += 1;
AddIdentityLoop(data, min, step) ==
    IF min = 0 THEN data
    ELSE AddIdentityLoop([data EXCEPT ![min - step] = RAdd(@, One)], min - step, step)

\* StaticMatrix::addIdentity()
StaticMatrix_addIdentity(M) ==
    LET min  == IF M.m < M.n THEN M.m ELSE M.n
        step == M.n + 1
    IN  [M EXCEPT !.data = AddIdentityLoop(M.data, min * step, step)]

\* StaticMatrix::operator()(i, j): the element at offset i * _n + j
StaticMatrix_at(M, i, j) == M.data[i * M.n + j]

StaticMatrix_set(M, i, j, v) == [M EXCEPT !.data[i * M.n + j] = v]

Pow2_16 == 65536

\* const quint16 &i bound to an int argument: the value modulo 2^16
quint16(v) == v % Pow2_16

\* ASSERT(_data && (i >= 0) && (i < _m) && (j >= 0) && (j < _n)) of operator()
StaticMatrix_inRange(M, i, j) == (i >= 0) /\ (i < M.m) /\ (j >= 0) /\ (j < M.n)


(***************************************************************************)
(* StaticMatrix<T>: comparison and the element-wise operators.             *)
(***************************************************************************)
RECURSIVE EqLoop(_, _, _)
\* while (size) { --size; if (_data[size] != other._data[size]) return false; }
EqLoop(d1, d2, size) ==
    IF size = 0 THEN TRUE
    ELSE IF d1[size - 1] # d2[size - 1] THEN FALSE
    ELSE EqLoop(d1, d2, size - 1)

\* operator== that compares the element counts instead of the two dimensions.
StaticMatrix_eq_sizeOnly(M, O) ==
    IF M.m * M.n # O.m * O.n THEN FALSE
    ELSE EqLoop(M.data, O.data, M.m * M.n)

\* StaticMatrix::operator==
StaticMatrix_eq(M, O) ==
    IF (M.m # O.m) \/ (M.n # O.n) THEN FALSE
    ELSE EqLoop(M.data, O.data, M.m * M.n)

RECURSIVE AddLoop(_, _, _, _, _)
\* while (size) { --size; _data[size] += other._data[size]; }
\* alias: other is this very object, so other._data is read from the buffer
\* being written.
AddLoop(data, odata, alias, size, junk) ==
    IF size = 0 THEN data
    ELSE LET o == IF alias THEN data[size - 1]
                  ELSE IF (size - 1) \in DOMAIN odata THEN odata[size - 1] ELSE junk
         IN  AddLoop([data EXCEPT ![size - 1] = RAdd(@, o)], odata, alias, size - 1, junk)

\* StaticMatrix::operator+=: [ok, d, oob].  ok is ASSERT((_m == other._m) || (_n == other._n))
\* in a build that keeps ASSERT; oob: the loop read past the end of other._data,
\* where it finds `junk`.
StaticMatrix_add(M, O, alias, asserts, junk) ==
    IF asserts /\ ~((M.m = O.m) \/ (M.n = O.n)) THEN [ok |-> FALSE, d |-> M, oob |-> FALSE]
    ELSE [ok |-> TRUE,
          d |-> [M EXCEPT !.data = AddLoop(M.data, O.data, alias, M.m * M.n, junk)],
          oob |-> ~alias /\ M.m * M.n > O.m * O.n]

RECURSIVE SubLoop(_, _, _, _, _)
SubLoop(data, odata, alias, size, junk) ==
    IF size = 0 THEN data
    ELSE LET o == IF alias THEN data[size - 1]
                  ELSE IF (size - 1) \in DOMAIN odata THEN odata[size - 1] ELSE junk
         IN  SubLoop([data EXCEPT ![size - 1] = RSub(@, o)], odata, alias, size - 1, junk)

\* StaticMatrix::operator-=: [ok, d, oob].  ok is ASSERT((_m == other._m) || (_n == other._n))
\* in a build that keeps ASSERT; oob: the loop read past the end of other._data,
\* where it finds `junk`.
StaticMatrix_sub(M, O, alias, asserts, junk) ==
    IF asserts /\ ~((M.m = O.m) \/ (M.n = O.n)) THEN [ok |-> FALSE, d |-> M, oob |-> FALSE]
    ELSE [ok |-> TRUE,
          d |-> [M EXCEPT !.data = SubLoop(M.data, O.data, alias, M.m * M.n, junk)],
          oob |-> ~alias /\ M.m * M.n > O.m * O.n]

RECURSIVE ScaleLoop(_, _, _)
\* while (size) _data[--size] *= c;
ScaleLoop(data, c, size) ==
    IF size = 0 THEN data
    ELSE ScaleLoop([data EXCEPT ![size - 1] = RMul(@, c)], c, size - 1)

\* StaticMatrix::operator*=(const T &c)
StaticMatrix_scale(M, c) == [M EXCEPT !.data = ScaleLoop(M.data, c, M.m * M.n)]

(***************************************************************************)
(* StaticMatrix<T>: products.                                              *)
(***************************************************************************)
RECURSIVE GetProduct_k(_, _, _, _, _, _, _)
\* while (k) { --k; index2 -= other._n;
\*             data[index3] += _data[index1 + k] * other._data[index2]; }
GetProduct_k(d1, d2, on, index1, index2, k, acc) ==
    IF k = 0 THEN acc
    ELSE GetProduct_k(d1, d2, on, index1, index2 - on, k - 1,
                      RAdd(acc, RMul(d1[index1 + (k - 1)], d2[index2 - on])))

RECURSIVE GetProduct_j(_, _, _, _, _, _)
\* while (j) { --j; --index3; data[index3] = 0; index2 = _n * other._n + j; ... }
GetProduct_j(M, O, index1, j, index3, data) ==
    IF j = 0 THEN [data |-> data, index3 |-> index3]
    ELSE LET v == GetProduct_k(M.data, O.data, O.n, index1,
                               M.n * O.n + (j - 1), M.n, Zero)
         IN  GetProduct_j(M, O, index1, j - 1, index3 - 1,
                          [data EXCEPT ![index3 - 1] = v])

RECURSIVE GetProduct_i(_, _, _, _, _)
\* while (i) { --i; index1 = i * _n; j = other._n; ... }
GetProduct_i(M, O, i, index3, data) ==
    IF i = 0 THEN data
    ELSE LET r == GetProduct_j(M, O, (i - 1) * M.n, O.n, index3, data)
         IN  GetProduct_i(M, O, i - 1, r.index3, r.data)

\* StaticMatrix::getProduct(other): a new _m x other._n matrix
StaticMatrix_getProduct(M, O) ==
    [m |-> M.m, n |-> O.n,
     data |-> GetProduct_i(M, O, M.m, M.m * O.n, Raw(M.m * O.n))]

\* StaticMatrix::prepareProduct(m1, m2): a m1._m x m2._n matrix over a
\* new T[] that nothing initialises; `junk` is what the allocation holds.
StaticMatrix_prepareProduct(m1, m2, junk) ==
    [m |-> m1.m, n |-> m2.n, data |-> [x \in 0 .. m1.m * m2.n - 1 |-> junk[x]]]

RECURSIVE PartialProduct_k(_, _, _, _, _, _, _, _, _, _)
\* while (k) { --k; index2 -= _n;
\*             _data[index3] += m1._data[index1 + k] * m2._data[index2]; }
\* a1 (a2): m1 (m2) is this very object, read from the buffer being written.
PartialProduct_k(data, m1, m2, a1, a2, n, index1, index2, index3, k) ==
    IF k = 0 THEN data
    ELSE LET i2 == index2 - n
             x  == IF a1 THEN data[index1 + (k - 1)] ELSE m1.data[index1 + (k - 1)]
             y  == IF a2 THEN data[i2] ELSE m2.data[i2]
         IN  PartialProduct_k([data EXCEPT ![index3] = RAdd(@, RMul(x, y))],
                              m1, m2, a1, a2, n, index1, i2, index3, k - 1)

RECURSIVE PartialProduct_j(_, _, _, _, _, _, _, _, _, _)
\* for (j = j1; j <= j2; ++j) { _data[index3] = 0; index2 = m1._n * _n + j;
\*                              k = m1._n; ...; ++index3; }
PartialProduct_j(data, m1, m2, a1, a2, n, index1, index3, j, j2) ==
    IF j > j2 THEN data
    ELSE LET d0 == [data EXCEPT ![index3] = Zero]
             m1n == IF a1 THEN n ELSE m1.n
             d1 == PartialProduct_k(d0, m1, m2, a1, a2, n, index1,
                                    m1n * n + j, index3, m1n)
         IN  PartialProduct_j(d1, m1, m2, a1, a2, n, index1, index3 + 1, j + 1, j2)

RECURSIVE PartialProduct_i(_, _, _, _, _, _, _, _, _, _)
\* for (i = i1; i <= i2; ++i) { index1 = i * m1._n; index3 = i * _n + j1; ... }
PartialProduct_i(data, m1, m2, a1, a2, n, i, i2, j1, j2) ==
    IF i > i2 THEN data
    ELSE LET m1n == IF a1 THEN n ELSE m1.n
             d1 == PartialProduct_j(data, m1, m2, a1, a2, n, i * m1n, i * n + j1,
                                    j1, j2)
         IN  PartialProduct_i(d1, m1, m2, a1, a2, n, i + 1, i2, j1, j2)

\* partialProduct whose column loop stops before j2 (j < j2 for j <= j2).
StaticMatrix_partialProduct_openBlock(M, m1, m2, a1, a2, i1, i2, j1, j2) ==
    [M EXCEPT !.data = PartialProduct_i(M.data, m1, m2, a1, a2, M.n, i1, i2, j1, j2 - 1)]

\* partialProduct whose column loop starts at column 0 (j = 0 for j = j1).
StaticMatrix_partialProduct_fromFirstColumn(M, m1, m2, a1, a2, i1, i2, j1, j2) ==
    [M EXCEPT !.data = PartialProduct_i(M.data, m1, m2, a1, a2, M.n, i1, i2, 0, j2)]

\* StaticMatrix::partialProduct(m1, m2, i1, i2, j1, j2)
StaticMatrix_partialProduct(M, m1, m2, a1, a2, i1, i2, j1, j2) ==
    [M EXCEPT !.data = PartialProduct_i(M.data, m1, m2, a1, a2, M.n, i1, i2, j1, j2)]

(***************************************************************************)
(* StaticMatrix<T>: determinant and division (Gauss-Jordan).               *)
(***************************************************************************)
\* The pivot search that keeps the diagonal element (no partial pivoting).
PivotScan_diagonalOnly(copy, n, index, maxAbs, best) == [maxAbs |-> maxAbs, best |-> best]

RECURSIVE PivotScan(_, _, _, _, _)
\* while ((index -= _n) > 0) { tmpAbs = ABS(copy[index]);
\*     if (tmpAbs > maxAbs) { maxAbs = tmpAbs; best = index; } }
\* `index` is the value after the first decrement.
PivotScan(copy, n, index, maxAbs, best) ==
    IF ~(index > 0) THEN [maxAbs |-> maxAbs, best |-> best]
    ELSE LET tmpAbs == ABS(copy[index])
         IN  IF RGt(tmpAbs, maxAbs)
             THEN PivotScan(copy, n, index - n, tmpAbs, index)
             ELSE PivotScan(copy, n, index - n, maxAbs, best)

\* memcpy(tmp, &a[i1], len); memcpy(&a[i1], &a[i2], len); memcpy(&a[i2], tmp, len)
SwapRows(a, i1, i2, len) ==
    [x \in DOMAIN a |->
        IF x >= i1 /\ x < i1 + len THEN a[i2 + (x - i1)]
        ELSE IF x >= i2 /\ x < i2 + len THEN a[i1 + (x - i2)]
        ELSE a[x]]

RECURSIVE Det_row(_, _, _, _, _, _)
\* for (best = k; best > 0; --best)
\*     copy[index - best] -= tmpT * copy[lindex - best] / maxAbs;
Det_row(copy, index, lindex, best, tmpT, maxAbs) ==
    IF ~(best > 0) THEN copy
    ELSE Det_row([copy EXCEPT ![index - best] =
                      RSub(@, RDiv(RMul(tmpT, copy[lindex - best]), maxAbs))],
                 index, lindex, best - 1, tmpT, maxAbs)

RECURSIVE Det_eliminate(_, _, _, _, _, _)
\* while ((index -= _n) > 0) { tmpT = copy[index]; if (tmpT != 0) ... }
Det_eliminate(copy, n, index, lindex, k, maxAbs) ==
    IF ~(index > 0) THEN copy
    ELSE LET tmpT == copy[index]
             c2 == IF tmpT # Zero
                   THEN Det_row(copy, index, lindex, k, tmpT, maxAbs)
                   ELSE copy
         IN  Det_eliminate(c2, n, index - n, lindex, k, maxAbs)

RECURSIVE Det_diagonal(_, _, _, _)
\* for (index = size - 1; index > 0; index -= step) tmpT *= copy[index];
Det_diagonal(copy, index, step, tmpT) ==
    IF ~(index > 0) THEN tmpT
    ELSE Det_diagonal(copy, index - step, step, RMul(tmpT, copy[index]))

RECURSIVE Det_loop(_, _, _, _, _)
\* while (--k) { ... lindex -= step; }, then the product of the diagonal
Det_loop(copy, n, neg, k, lindex) ==
    IF k - 1 = 0
    THEN LET tmpT == Det_diagonal(copy, n * n - 1, n + 1, copy[0])
         IN  IF neg THEN RNeg(tmpT) ELSE tmpT
    ELSE LET k1 == k - 1
             scan == PivotScan(copy, n, lindex - n, ABS(copy[lindex]), lindex)
         IN  IF scan.maxAbs = Zero THEN Zero
             ELSE LET swap == scan.best # lindex
                      c1 == IF swap
                            THEN SwapRows(copy, lindex - k1, scan.best - k1, k1 + 1)
                            ELSE copy
                      c2 == Det_eliminate(c1, n, lindex - n, lindex, k1, c1[lindex])
                  IN  Det_loop(c2, n, IF swap THEN ~neg ELSE neg, k1, lindex - (n + 1))

\* StaticMatrix::det(): works on a copy, *this is const
StaticMatrix_det(M) == Det_loop(M.data, M.n, FALSE, M.n, M.m * M.n - 1)

RECURSIVE Div_pivot(_, _, _, _, _)
\* operator/=: while ((index -= _n) > 0) { tmpAbs = ABS(copy[index]);
\*     if (tmpAbs > maxAbs) { maxAbs = tmpAbs; best = index; } }
Div_pivot(copy, n, index, maxAbs, best) ==
    IF ~(index > 0) THEN [maxAbs |-> maxAbs, best |-> best]
    ELSE LET tmpAbs == ABS(copy[index])
         IN  IF RGt(tmpAbs, maxAbs)
             THEN Div_pivot(copy, n, index - n, tmpAbs, index)
             ELSE Div_pivot(copy, n, index - n, maxAbs, best)

RECURSIVE Div_scaleHigh(_, _, _, _, _)
\* index = _n; while (index > k) { --index; _data[i1 + index] /= maxAbs; }
Div_scaleHigh(data, i1, index, k, maxAbs) ==
    IF ~(index > k) THEN data
    ELSE Div_scaleHigh([data EXCEPT ![i1 + (index - 1)] = RDiv(@, maxAbs)],
                       i1, index - 1, k, maxAbs)

RECURSIVE Div_scaleLow(_, _, _, _, _)
\* while (index) { --index; _data[i1 + index] /= maxAbs; copy[i1 + index] /= maxAbs; }
Div_scaleLow(cd, i1, index, k, maxAbs) ==
    IF index = 0 THEN cd
    ELSE Div_scaleLow([copy |-> [cd.copy EXCEPT ![i1 + (index - 1)] = RDiv(@, maxAbs)],
                       data |-> [cd.data EXCEPT ![i1 + (index - 1)] = RDiv(@, maxAbs)]],
                      i1, index - 1, k, maxAbs)

RECURSIVE Div_rowLow(_, _, _, _, _)
\* for (i2 = k; i2 > 0; --i2) { copy[index - i2] -= tmpT * copy[lindex - i2];
\*                              _data[index - i2] -= tmpT * _data[lindex - i2]; }
Div_rowLow(cd, index, lindex, i2, tmpT) ==
    IF ~(i2 > 0) THEN cd
    ELSE Div_rowLow(
            [copy |-> [cd.copy EXCEPT ![index - i2] =
                           RSub(@, RMul(tmpT, cd.copy[lindex - i2]))],
             data |-> [cd.data EXCEPT ![index - i2] =
                           RSub(@, RMul(tmpT, cd.data[lindex - i2]))]],
            index, lindex, i2 - 1, tmpT)

\* The elimination step that leaves columns k .. _n-1 of _data alone.
Div_rowHigh_skipped(data, index, lindex, i2, tmpT) == data

RECURSIVE Div_rowHigh(_, _, _, _, _)
\* i2 = _n - k; while (i2) { --i2; _data[index + i2] -= tmpT * _data[lindex + i2]; }
Div_rowHigh(data, index, lindex, i2, tmpT) ==
    IF i2 = 0 THEN data
    ELSE Div_rowHigh([data EXCEPT ![index + (i2 - 1)] =
                          RSub(@, RMul(tmpT, data[lindex + (i2 - 1)]))],
                     index, lindex, i2 - 1, tmpT)

RECURSIVE Div_eliminate(_, _, _, _, _)
\* for (index = lastLine + k; index > 0; index -= _n) if (index != lindex) { ... }
Div_eliminate(cd, n, index, lindex, k) ==
    IF ~(index > 0) THEN cd
    ELSE LET tmpT == cd.copy[index]
             next ==
                 IF index # lindex /\ tmpT # Zero
                 THEN LET low == Div_rowLow(cd, index, lindex, k, tmpT)
                      IN  [copy |-> low.copy,
                           data |-> Div_rowHigh(low.data, index, lindex, n - k, tmpT)]
                 ELSE cd
         IN  Div_eliminate(next, n, index - n, lindex, k)

RECURSIVE Div_loop(_, _, _, _, _)
\* while (k) { --k; ... lindex -= step; }
\* ok = FALSE: ASSERT(maxAbs != 0) does not hold (no non-zero pivot).
\* asserts: the build keeps ASSERT (Q_ASSERT of a Qt debug build); otherwise
\* ASSERT(x) is (void) 0 and the row is divided by the zero pivot.
Div_loop(cd, n, k, lindex, asserts) ==
    IF k = 0 THEN [ok |-> TRUE, data |-> cd.data]
    ELSE LET k1 == k - 1
             scan == Div_pivot(cd.copy, n, lindex - n, ABS(cd.copy[lindex]), lindex)
             i1 == lindex - k1
         IN  IF asserts /\ scan.maxAbs = Zero THEN [ok |-> FALSE, data |-> cd.data]
             ELSE LET swapped ==
                          IF scan.best # lindex
                          THEN [copy |-> SwapRows(cd.copy, i1, scan.best - k1, k1 + 1),
                                data |-> SwapRows(cd.data, i1, scan.best - k1, n)]
                          ELSE cd
                      maxAbs == swapped.copy[lindex]
                      scaled ==
                          IF maxAbs # One
                          THEN Div_scaleLow(
                                   [copy |-> swapped.copy,
                                    data |-> Div_scaleHigh(swapped.data, i1, n, k1, maxAbs)],
                                   i1, k1, k1, maxAbs)
                          ELSE swapped
                      done == Div_eliminate(scaled, n, (n * n - n) + k1, lindex, k1)
                  IN  Div_loop(done, n, k1, lindex - (n + 1), asserts)

\* StaticMatrix::operator/=(const StaticMatrix &other): [ok, data]; the
\* elimination runs on a copy of other._data, so other itself is only read.
StaticMatrix_div(M, O, asserts) ==
    LET r == Div_loop([copy |-> O.data, data |-> M.data], M.n, M.n, M.m * M.n - 1, asserts)
    IN  [ok |-> r.ok, d |-> [M EXCEPT !.data = r.data]]

(***************************************************************************)
(* StaticMatrix<T>: cut.                                                   *)
(***************************************************************************)
INT_MAX == 2147483647

Min(a, b) == IF a < b THEN a ELSE b

RECURSIVE Cut_rows(_, _, _, _, _, _, _, _, _, _, _)
\* while (sm > 0) { memcpy(&_data[dj], &other._data[sj], sn * sizeof(T));
\*                  sj += other._n; dj += _n; --sm; }
\* oob: a memcpy read or wrote outside a buffer, or its two ranges overlap;
\* junk is what a read outside other._data yields.
Cut_rows(data, odata, alias, n, on, dj, sj, sm, sn, junk, oob) ==
    IF ~(sm > 0) THEN [data |-> data, oob |-> oob]
    ELSE LET src == IF alias THEN data ELSE odata
             size == Cardinality(DOMAIN data)
             osize == Cardinality(DOMAIN src)
             bad == \/ sj < 0 \/ sj + sn > osize
                    \/ dj < 0 \/ dj + sn > size
                    \/ alias /\ dj < sj + sn /\ sj < dj + sn
             d2 == [y \in DOMAIN data |->
                       IF y >= dj /\ y < dj + sn
                       THEN IF (sj + (y - dj)) \in DOMAIN src
                            THEN src[sj + (y - dj)] ELSE junk
                       ELSE data[y]]
         IN  Cut_rows(d2, odata, alias, n, on, dj + n, sj + on, sm - 1, sn, junk,
                      oob \/ bad)

\* StaticMatrix::cut(other, di, dj, si, sj, sm, sn): [d, oob]
StaticMatrix_cut(M, O, alias, di0, dj0, si0, sj0, sm0, sn0, junk) ==
    LET on == IF alias THEN M.n ELSE O.n
        om == IF alias THEN M.m ELSE O.m
        si == IF di0 < 0 THEN si0 + di0 ELSE si0
        sm1 == IF di0 < 0 THEN sm0 + di0 ELSE sm0
        di == IF di0 < 0 THEN 0 ELSE di0
        sj == IF dj0 < 0 THEN sj0 + dj0 ELSE sj0
        sn1 == IF dj0 < 0 THEN sn0 + dj0 ELSE sn0
        dj == IF dj0 < 0 THEN 0 ELSE dj0
        sn == Min(M.n - dj, Min(on - sj, sn1))
        sm == Min(M.m - di, Min(om - si, sm1))
    IN  IF sn <= 0 THEN [d |-> M, oob |-> FALSE]
        ELSE LET r == Cut_rows(M.data, O.data, alias, M.n, on, dj + di * M.n,
                               sj + si * on, sm, sn, junk, FALSE)
             IN  [d |-> [M EXCEPT !.data = r.data], oob |-> r.oob]

(***************************************************************************)
(* Matrix<T>: the reference-counted handle.  A store st = [hp, heap, fault] *)
(* is threaded through the methods; every method is a function of the      *)
(* store before the call.                                                  *)
(***************************************************************************)
NumHandles == 2
Handles == 1 .. NumHandles
BufIds  == 1 .. NumHandles + 1

NULL == 0
Dead == 0 - 1           \* the handle object does not exist (not a pointer value)
NoMatrix == [m |-> 0, n |-> 0, data |-> <<>>]
FreeBlock == [live |-> FALSE, n |-> 0, d |-> NoMatrix]

Alive(st, x) == st.hp[x] # Dead
Shared(st, x) == Alive(st, x) /\ st.hp[x] # NULL

\* new Data(d): Data::Data sets n(1).  The allocator hands out a block that is
\* neither in use nor still pointed to.
NewData(st, x, d) ==
    LET free == {b \in DOMAIN st.heap :
                    ~st.heap[b].live /\ \A h \in DOMAIN st.hp : st.hp[h] # b}
    IN  IF free = {} THEN [st EXCEPT !.fault = "bad_alloc"]
        ELSE LET b == CHOOSE c \in free : \A e \in free : c <= e
             IN  [st EXCEPT !.heap[b] = [live |-> TRUE, n |-> 1, d |-> d],
                            !.hp[x] = b]

\* if (--_p->n <= 0) { delete _p->d; delete _p; }
Release(st, b) ==
    IF ~st.heap[b].live THEN [st EXCEPT !.fault = "use_after_free"]
    ELSE IF st.heap[b].n - 1 <= 0 THEN [st EXCEPT !.heap[b] = FreeBlock]
    ELSE [st EXCEPT !.heap[b].n = @ - 1]

\* Matrix::deref()
deref(st, x) ==
    IF st.hp[x] # NULL
    THEN [Release(st, st.hp[x]) EXCEPT !.hp[x] = NULL]
    ELSE st

\* detach() that never clones: the handle keeps writing into the shared block.
detach_noClone(st, x) == st

\* detach() that clones without --_p->n: the block left behind keeps its count.
detach_keepCount(st, x) ==
    LET b == st.hp[x]
    IN  IF b # NULL /\ st.heap[b].n > 1
        THEN NewData(st, x, StaticMatrix_copy(st.heap[b].d))
        ELSE st

\* Matrix::detach()
detach(st, x) ==
    LET b == st.hp[x]
    IN  IF b # NULL /\ st.heap[b].n > 1
        THEN NewData([st EXCEPT !.heap[b].n = @ - 1], x, StaticMatrix_copy(st.heap[b].d))
        ELSE st

\* ++_p->n on the block a handle has just been pointed at
AddRef(st, x) ==
    LET b == st.hp[x]
    IN  IF b = NULL THEN st
        ELSE IF ~st.heap[b].live THEN [st EXCEPT !.fault = "use_after_free"]
        ELSE [st EXCEPT !.heap[b].n = @ + 1]

\* The kernel a handle points to (*_p->d).
Kernel(st, x) == st.heap[st.hp[x]].d

\* A call that touches the block of a handle whose block has been deleted.
Dangling(st, xs) == \E x \in xs : Shared(st, x) /\ ~st.heap[st.hp[x]].live

Guarded(st, xs, result) ==
    IF Dangling(st, xs) THEN [st EXCEPT !.fault = "use_after_free"] ELSE result

Failed(st) == [st EXCEPT !.fault = "assert"]

\* Matrix::Matrix()
Matrix_default(st, x) == [st EXCEPT !.hp[x] = NULL]

\* The copy constructor without ++_p->n.
Matrix_copy_noAddRef(st, x, y) == [st EXCEPT !.hp[x] = st.hp[y]]

\* Matrix::Matrix(const Matrix &other)
Matrix_copy(st, x, y) == Guarded(st, {y}, AddRef([st EXCEPT !.hp[x] = st.hp[y]], x))

\* Matrix::Matrix(int m, int n)
Matrix_zero(st, x, m, n) ==
    IF (m > 0) /\ (n > 0) THEN NewData(st, x, StaticMatrix_zero(m, n))
    ELSE [st EXCEPT !.hp[x] = NULL]

\* Matrix::Matrix(int m, int n, T value)
Matrix_value(st, x, m, n, value) ==
    IF (m > 0) /\ (n > 0) THEN NewData(st, x, StaticMatrix_value(m, n, value))
    ELSE [st EXCEPT !.hp[x] = NULL]

\* Matrix::~Matrix()
Matrix_destroy(st, x) == Guarded(st, {x}, [deref(st, x) EXCEPT !.hp[x] = Dead])

\* Matrix::operator=(const Matrix &other): other._p is read after deref()
Matrix_assign(st, x, y) ==
    Guarded(st, {x, y},
        LET s1 == deref(st, x)
        IN  AddRef([s1 EXCEPT !.hp[x] = s1.hp[y]], x))

\* Matrix::operator==
Matrix_eq(st, x, y) ==
    IF st.hp[x] # NULL /\ st.hp[y] # NULL
    THEN IF st.hp[x] = st.hp[y] THEN TRUE
         ELSE StaticMatrix_eq(Kernel(st, x), Kernel(st, y))
    ELSE ~(st.hp[x] # NULL \/ st.hp[y] # NULL)

\* Matrix::operator!=
Matrix_neq(st, x, y) ==
    IF st.hp[x] # NULL /\ st.hp[y] # NULL
    THEN IF st.hp[x] = st.hp[y] THEN FALSE
         ELSE ~StaticMatrix_eq(Kernel(st, x), Kernel(st, y))
    ELSE st.hp[x] # NULL \/ st.hp[y] # NULL

\* Matrix::operator()(i, j), the non-const overload, followed by a store
\* through the reference it returns
\* i0, j0 are the int arguments of the call.  asserts: the build keeps ASSERT;
\* otherwise the offset is used unchecked, inside the array or not.
Matrix_set(st, x, i0, j0, v, asserts) ==
    Guarded(st, {x},
        LET s1 == detach(st, x)
            i == quint16(i0)
            j == quint16(j0)
        IN  IF s1.hp[x] = NULL THEN Failed(s1)
            ELSE IF asserts /\ ~StaticMatrix_inRange(Kernel(s1, x), i, j) THEN Failed(s1)
            ELSE IF (i * Kernel(s1, x).n + j) \notin DOMAIN Kernel(s1, x).data
            THEN [s1 EXCEPT !.fault = "out_of_bounds"]
            ELSE [s1 EXCEPT !.heap[s1.hp[x]].d = StaticMatrix_set(@, i, j, v)])

\* Matrix::operator()(i, j) const, and a load through the reference it
\* returns: [st, v]; a load outside the array finds `junk`.
Matrix_at(st, x, i0, j0, asserts, junk) ==
    LET i == quint16(i0)
        j == quint16(j0)
    IN  IF Dangling(st, {x}) THEN [st |-> [st EXCEPT !.fault = "use_after_free"], v |-> junk]
        ELSE IF st.hp[x] = NULL THEN [st |-> Failed(st), v |-> junk]
        ELSE IF asserts /\ ~StaticMatrix_inRange(Kernel(st, x), i, j)
        THEN [st |-> Failed(st), v |-> junk]
        ELSE IF (i * Kernel(st, x).n + j) \notin DOMAIN Kernel(st, x).data
        THEN [st |-> [st EXCEPT !.fault = "out_of_bounds"], v |-> junk]
        ELSE [st |-> st, v |-> StaticMatrix_at(Kernel(st, x), i, j)]

\* Matrix::data()
Matrix_data(st, x) == Guarded(st, {x}, detach(st, x))

\* Matrix::fill(T value)
Matrix_fill(st, x, value) ==
    Guarded(st, {x},
        LET b == st.hp[x]
        IN  IF b = NULL THEN Failed(st)
            ELSE IF st.heap[b].n > 1
            THEN NewData([st EXCEPT !.heap[b].n = @ - 1], x,
                         StaticMatrix_value(st.heap[b].d.m, st.heap[b].d.n, value))
            ELSE [st EXCEPT !.heap[b].d = StaticMatrix_fill(@, value)])

\* Matrix::fillZero()
Matrix_fillZero(st, x) ==
    Guarded(st, {x},
        LET b == st.hp[x]
        IN  IF b = NULL THEN Failed(st)
            ELSE IF st.heap[b].n > 1
            THEN NewData([st EXCEPT !.heap[b].n = @ - 1], x,
                         StaticMatrix_zero(st.heap[b].d.m, st.heap[b].d.n))
            ELSE [st EXCEPT !.heap[b].d = StaticMatrix_fillZero(@)])

\* Matrix::addIdentity()
Matrix_addIdentity(st, x) ==
    Guarded(st, {x},
        LET s1 == detach(st, x)
        IN  IF s1.hp[x] = NULL THEN Failed(s1)
            ELSE [s1 EXCEPT !.heap[s1.hp[x]].d = StaticMatrix_addIdentity(@)])

\* Matrix::operator+=(const Matrix &other)
Matrix_add(st, x, y, asserts, junk) ==
    Guarded(st, {x, y},
        IF ~(st.hp[x] # NULL /\ st.hp[y] # NULL) THEN Failed(st)
        ELSE LET s1 == detach(st, x)
                 r == StaticMatrix_add(Kernel(s1, x), Kernel(s1, y), s1.hp[x] = s1.hp[y],
                                       asserts, junk)
             IN  IF ~r.ok THEN Failed(s1)
                 ELSE [s1 EXCEPT !.heap[s1.hp[x]].d = r.d,
                                 !.fault = IF r.oob THEN "out_of_bounds" ELSE @])

\* Matrix::operator-=(const Matrix &other)
Matrix_sub(st, x, y, asserts, junk) ==
    Guarded(st, {x, y},
        IF ~(st.hp[x] # NULL /\ st.hp[y] # NULL) THEN Failed(st)
        ELSE LET s1 == detach(st, x)
                 r == StaticMatrix_sub(Kernel(s1, x), Kernel(s1, y), s1.hp[x] = s1.hp[y],
                                       asserts, junk)
             IN  IF ~r.ok THEN Failed(s1)
                 ELSE [s1 EXCEPT !.heap[s1.hp[x]].d = r.d,
                                 !.fault = IF r.oob THEN "out_of_bounds" ELSE @])

\* Matrix::operator*=(const T &c)
Matrix_scale(st, x, c) ==
    Guarded(st, {x},
        IF st.hp[x] = NULL THEN Failed(st)
        ELSE LET s1 == detach(st, x)
             IN  [s1 EXCEPT !.heap[s1.hp[x]].d = StaticMatrix_scale(@, c)])

\* Matrix::operator*=(const Matrix &other)
\* operator*= that stores the product in the block the handle points at.
Matrix_mul_inPlace(st, x, y) ==
    [st EXCEPT !.heap[st.hp[x]].d = StaticMatrix_getProduct(Kernel(st, x), Kernel(st, y))]

\* Matrix::operator*=(const Matrix &other)
Matrix_mul(st, x, y) ==
    Guarded(st, {x, y},
        IF ~(st.hp[x] # NULL /\ st.hp[y] # NULL) THEN Failed(st)
        ELSE LET tmp == StaticMatrix_getProduct(Kernel(st, x), Kernel(st, y))
             IN  NewData(Release(st, st.hp[x]), x, tmp))

\* Matrix::partialProduct(m1, m2, i1, i2, j1, j2).  asserts: the build keeps
\* ASSERT (Q_ASSERT of a Qt debug build); otherwise ASSERT(x) is (void) 0.
Matrix_partialProduct(st, x, y1, y2, i1, i2, j1, j2, asserts) ==
    Guarded(st, {x, y1, y2},
        IF ~(st.hp[x] # NULL /\ st.hp[y1] # NULL /\ st.hp[y2] # NULL) THEN Failed(st)
        ELSE LET s1 == detach(st, x)
                 a1 == s1.hp[x] = s1.hp[y1]
                 a2 == s1.hp[x] = s1.hp[y2]
             IN  IF asserts /\ (a1 \/ a2) THEN Failed(s1)
                 ELSE [s1 EXCEPT !.heap[s1.hp[x]].d =
                          StaticMatrix_partialProduct(@, Kernel(s1, y1), Kernel(s1, y2),
                                                      a1, a2, i1, i2, j1, j2)])

\* Matrix::operator/=(const Matrix &other)
\* operator/= whose shortcut installs the zero matrix (no addIdentity()).
Matrix_div_zeroShortcut(st, x, y, asserts) ==
    IF st.hp[x] = st.hp[y]
    THEN NewData(Release(st, st.hp[x]), x,
                 StaticMatrix_value(Kernel(st, x).m, Kernel(st, x).n, Zero))
    ELSE LET s1 == detach(st, x)
         IN  [s1 EXCEPT !.heap[s1.hp[x]].d = StaticMatrix_div(@, Kernel(s1, y), asserts).d]

\* Matrix::operator/=(const Matrix &other)
Matrix_div(st, x, y, asserts) ==
    Guarded(st, {x, y},
        IF ~(st.hp[x] # NULL /\ st.hp[y] # NULL) THEN Failed(st)
        ELSE IF st.hp[x] = st.hp[y]
        THEN LET m == StaticMatrix_value(Kernel(st, x).m, Kernel(st, x).n, Zero)
             IN  NewData(Release(st, st.hp[x]), x, StaticMatrix_addIdentity(m))
        ELSE LET s1 == detach(st, x)
                 r == StaticMatrix_div(Kernel(s1, x), Kernel(s1, y), asserts)
             IN  IF ~r.ok THEN Failed(s1)
                 ELSE [s1 EXCEPT !.heap[s1.hp[x]].d = r.d])

\* Matrix::cut(other, di, dj, si, sj, sm, sn)
Matrix_cut(st, x, y, di, dj, si, sj, sm, sn, junk) ==
    Guarded(st, {x, y},
        IF ~(st.hp[x] # NULL /\ st.hp[y] # NULL) THEN Failed(st)
        ELSE LET s1 == detach(st, x)
                 r == StaticMatrix_cut(Kernel(s1, x), Kernel(s1, y),
                                       s1.hp[x] = s1.hp[y], di, dj, si, sj, sm, sn, junk)
             IN  [s1 EXCEPT !.heap[s1.hp[x]].d = r.d,
                            !.fault = IF r.oob THEN "out_of_bounds" ELSE @])

\* Matrix::prepareProduct(m1, m2), its result constructing handle x
Matrix_prepareProduct(st, x, y1, y2, junk) ==
    Guarded(st, {y1, y2},
        IF ~(st.hp[y1] # NULL /\ st.hp[y2] # NULL) THEN Failed(st)
        ELSE NewData(st, x, StaticMatrix_prepareProduct(Kernel(st, y1), Kernel(st, y2), junk)))

\* Matrix::det()
Matrix_det(st, x) == StaticMatrix_det(Kernel(st, x))

(***************************************************************************)
(* What a client observes through a handle, and the mathematics the        *)
(* operations are compared with.                                           *)
(***************************************************************************)
\* isNull(), countRows(), countCols() and every element (i, j) of a handle
Value(st, x) ==
    IF st.hp[x] = Dead THEN [state |-> "dead"]
    ELSE IF st.hp[x] = NULL THEN [state |-> "null"]
    ELSE [state |-> "shared", d |-> Kernel(st, x)]

Cell(M, i, j) == M.data[i * M.n + j]

RECURSIVE SumTo(_, _, _, _, _)
\* sum for k in 0 .. n-1 of A(i, k) * B(k, j)
SumTo(A, B, i, j, k) ==
    IF k = 0 THEN Zero
    ELSE RAdd(SumTo(A, B, i, j, k - 1), RMul(Cell(A, i, k - 1), Cell(B, k - 1, j)))

MatProduct(A, B) ==
    [m |-> A.m, n |-> B.n,
     data |-> [x \in 0 .. A.m * B.n - 1 |-> SumTo(A, B, x \div B.n, x % B.n, A.n)]]

Identity(n) ==
    [m |-> n, n |-> n,
     data |-> [x \in 0 .. n * n - 1 |-> IF x \div n = x % n THEN One ELSE Zero]]

\* The determinant by cofactor expansion along the first row (Leibniz formula).
Minor(M, c) ==
    LET n == M.n
    IN  [m |-> n - 1, n |-> n - 1,
         data |-> [x \in 0 .. (n - 1) * (n - 1) - 1 |->
                      LET i == x \div (n - 1)
                          j == x % (n - 1)
                      IN  Cell(M, i + 1, IF j < c THEN j ELSE j + 1)]]

RECURSIVE Leibniz(_)
RECURSIVE LeibnizSum(_, _)
LeibnizSum(M, c) ==
    IF c = 0 THEN Zero
    ELSE LET t == RMul(Cell(M, 0, c - 1), Leibniz(Minor(M, c - 1)))
         IN  IF (c - 1) % 2 = 0 THEN RAdd(LeibnizSum(M, c - 1), t)
             ELSE RSub(LeibnizSum(M, c - 1), t)
Leibniz(M) == IF M.n = 1 THEN M.data[0] ELSE LeibnizSum(M, M.n)

Square(M) == M.m = M.n
Invertible(M) == Square(M) /\ Leibniz(M) # Zero

(***************************************************************************)
(* The handle state machine: a client making calls on a few Matrix handles. *)
(***************************************************************************)
MaxOps == 4     \* calls per run
MaxDim == 2     \* rows and columns a client asks for
MaxVal == 2     \* the element value a client passes

Dims == 1 .. MaxDim
Vals == {RInt(MaxVal)}

Store == [hp |-> hp, heap |-> heap, fault |-> fault]
NoHandles == [hp |-> [h \in Handles |-> Dead], heap |-> [b \in BufIds |-> FreeBlock]]
NoCall == [op |-> "none", x |-> 0, y |-> 0, z |-> 0, args |-> <<>>, pre |-> NoHandles]
Idle == pc = "idle" /\ input = <<>> /\ output = <<>>

HInit ==
    /\ hp = NoHandles.hp
    /\ heap = NoHandles.heap
    /\ fault = "none"
    /\ last = NoCall
    /\ nops = 0
    /\ Idle

\* One call: r is the store the method returns.
Call(r, op, x, y, z, args) ==
    /\ fault = "none"
    /\ nops < MaxOps
    /\ \E s \in {r} : hp' = s.hp /\ heap' = s.heap /\ fault' = s.fault
    /\ last' = [op |-> op, x |-> x, y |-> y, z |-> z, args |-> args,
                pre |-> [hp |-> hp, heap |-> heap]]
    /\ nops' = nops + 1
    /\ UNCHANGED <<pc, input, output>>

K(x) == Kernel(Store, x)
SameShape(x, y) == K(x).m = K(y).m /\ K(x).n = K(y).n

Default == \E x \in DOMAIN hp :
    /\ ~Alive(Store, x)
    /\ Call(Matrix_default(Store, x), "default", x, 0, 0, <<>>)

Construct == \E x \in DOMAIN hp, m \in Dims, n \in Dims :
    /\ ~Alive(Store, x)
    /\ Call(Matrix_zero(Store, x, m, n), "construct", x, 0, 0, <<>>)

ConstructValue == \E x \in DOMAIN hp, m \in Dims, n \in Dims, v \in Vals :
    /\ ~Alive(Store, x)
    /\ Call(Matrix_value(Store, x, m, n, v), "constructValue", x, 0, 0, <<>>)

Copy == \E x \in DOMAIN hp, y \in DOMAIN hp :
    /\ ~Alive(Store, x) /\ Alive(Store, y)
    /\ Call(Matrix_copy(Store, x, y), "copy", x, y, 0, <<>>)

Destroy == \E x \in DOMAIN hp :
    /\ Alive(Store, x)
    /\ Call(Matrix_destroy(Store, x), "destroy", x, 0, 0, <<>>)

Assign == \E x \in DOMAIN hp, y \in DOMAIN hp :
    /\ Alive(Store, x) /\ Alive(Store, y)
    /\ Call(Matrix_assign(Store, x, y), "assign", x, y, 0, <<>>)

SetElement == \E x \in DOMAIN hp, i \in 0 .. MaxDim - 1, j \in 0 .. MaxDim - 1, v \in Vals :
    /\ Shared(Store, x) /\ i < K(x).m /\ j < K(x).n
    /\ Call(Matrix_set(Store, x, i, j, v, TRUE), "set", x, 0, 0, <<>>)

Data == \E x \in DOMAIN hp :
    /\ Alive(Store, x)
    /\ Call(Matrix_data(Store, x), "data", x, 0, 0, <<>>)

Fill == \E x \in DOMAIN hp, v \in Vals :
    /\ Shared(Store, x)
    /\ Call(Matrix_fill(Store, x, v), "fill", x, 0, 0, <<>>)

FillZero == \E x \in DOMAIN hp :
    /\ Shared(Store, x)
    /\ Call(Matrix_fillZero(Store, x), "fillZero", x, 0, 0, <<>>)

AddIdentity == \E x \in DOMAIN hp :
    /\ Shared(Store, x)
    /\ Call(Matrix_addIdentity(Store, x), "addIdentity", x, 0, 0, <<>>)

Add == \E x \in DOMAIN hp, y \in DOMAIN hp :
    /\ Shared(Store, x) /\ Shared(Store, y) /\ SameShape(x, y)
    /\ Call(Matrix_add(Store, x, y, TRUE, Zero), "add", x, y, 0, <<>>)

Sub == \E x \in DOMAIN hp, y \in DOMAIN hp :
    /\ Shared(Store, x) /\ Shared(Store, y) /\ SameShape(x, y)
    /\ Call(Matrix_sub(Store, x, y, TRUE, Zero), "sub", x, y, 0, <<>>)

Scale == \E x \in DOMAIN hp, c \in Vals :
    /\ Shared(Store, x)
    /\ Call(Matrix_scale(Store, x, c), "scale", x, 0, 0, <<>>)

Mul == \E x \in DOMAIN hp, y \in DOMAIN hp :
    /\ Shared(Store, x) /\ Shared(Store, y) /\ K(x).n = K(y).m
    /\ Call(Matrix_mul(Store, x, y), "mul", x, y, 0, <<>>)

\* y is invertible: ASSERT(maxAbs != 0) holds whether the build keeps it or not.
Div == \E x \in DOMAIN hp, y \in DOMAIN hp :
    /\ Shared(Store, x) /\ Shared(Store, y) /\ SameShape(x, y) /\ Invertible(K(y))
    /\ Call(Matrix_div(Store, x, y, TRUE), "div", x, y, 0, <<>>)

PartialProduct == \E x \in DOMAIN hp, y \in DOMAIN hp, z \in DOMAIN hp :
    /\ y # x /\ z # x
    /\ Shared(Store, x) /\ Shared(Store, y) /\ Shared(Store, z)
    /\ K(x).m = K(y).m /\ K(y).n = K(z).m /\ K(z).n = K(x).n
    /\ \E i2 \in 0 .. K(x).m - 1, j2 \in 0 .. K(x).n - 1, asserts \in BOOLEAN :
         \E i1 \in 0 .. i2, j1 \in 0 .. j2 :
            Call(Matrix_partialProduct(Store, x, y, z, i1, i2, j1, j2, asserts),
                 "partialProduct", x, y, z, <<i1, i2, j1, j2>>)

\* x.partialProduct(m1, m2, ...) with x itself as m1 or m2.  asserts: the
\* build keeps ASSERT (Q_ASSERT under Qt) or compiles it away.
PartialProductSelf == \E x \in DOMAIN hp, y \in DOMAIN hp, z \in DOMAIN hp :
    /\ y = x \/ z = x
    /\ Shared(Store, x) /\ Shared(Store, y) /\ Shared(Store, z)
    /\ K(x).m = K(y).m /\ K(y).n = K(z).m /\ K(z).n = K(x).n
    /\ \E i2 \in 0 .. K(x).m - 1, j2 \in 0 .. K(x).n - 1, asserts \in BOOLEAN :
         \E i1 \in 0 .. i2, j1 \in 0 .. j2 :
            Call(Matrix_partialProduct(Store, x, y, z, i1, i2, j1, j2, asserts),
                 "partialProductSelf", x, y, z, <<i1, i2, j1, j2>>)

Cut == \E x \in DOMAIN hp, y \in DOMAIN hp, di \in 0 .. MaxDim - 1 :
    /\ Shared(Store, x) /\ Shared(Store, y)
    /\ Call(Matrix_cut(Store, x, y, di, 0, 0, 0, INT_MAX, INT_MAX, Zero),
            "cut", x, y, 0, <<>>)

HNext ==
    \/ Default \/ Construct \/ ConstructValue \/ Copy \/ Destroy \/ Assign
    \/ SetElement \/ Data \/ Fill \/ FillZero \/ AddIdentity \/ Add \/ Sub
    \/ Scale \/ Mul \/ Div \/ PartialProduct \/ Cut

SpecH == HInit /\ [][HNext]_vars

(***************************************************************************)
(* Properties of the handle state machine.                                 *)
(***************************************************************************)
Mutators == {"set", "data", "fill", "fillZero", "addIdentity", "add", "sub",
             "scale", "mul", "div", "partialProduct", "partialProductSelf", "cut"}

Before(x) == Value(last.pre, x)
Now(x) == Value(Store, x)
Refs(b) == Cardinality({h \in DOMAIN hp : hp[h] = b})

\* C1: copy-on-write isolation.  After a mutating call made through handle
\* last.x, every other handle shows the shape and the elements it showed
\* before the call, whether or not it shared last.x's buffer.
C1_CopyOnWriteIsolation ==
    last.op \in Mutators =>
        \A h \in DOMAIN hp \ {last.x} : Now(h) = Before(h)

\* A mutating call went through a handle that shared its buffer with another
\* handle, and changed what the first one shows.
C1_Witness ==
    /\ last.op \in Mutators
    /\ \E h \in DOMAIN hp \ {last.x} :
          /\ last.pre.hp[h] # NULL /\ last.pre.hp[h] # Dead
          /\ last.pre.hp[h] = last.pre.hp[last.x]
          /\ Now(last.x) # Before(last.x)
          /\ Now(h).d.data # Now(last.x).d.data

\* C2: assignment preserves value.  After X = Y, X shows what Y showed before
\* the call (Null iff Y was Null) and Y is unchanged; X and Y may share a
\* buffer or be the same handle.
C2_AssignPreservesValue ==
    last.op = "assign" =>
        /\ Now(last.x) = Before(last.y)
        /\ Now(last.y) = Before(last.y)

\* C3: reference counts.  A block is live exactly while a handle points at
\* it, its n is the number of such handles (so at least 1), no handle points
\* at a deleted block and no call touched one.
C3_RefCountInvariant ==
    /\ \A b \in DOMAIN heap :
          /\ heap[b].live <=> Refs(b) > 0
          /\ heap[b].live => heap[b].n = Refs(b) /\ heap[b].n >= 1
          /\ ~heap[b].live => heap[b] = FreeBlock
    /\ fault \notin {"use_after_free", "bad_alloc"}

\* The last call dropped the last reference to a block, which was deleted,
\* and left another block shared by two handles.
C3_Witness ==
    /\ \E b \in DOMAIN heap : last.pre.heap[b].live /\ ~heap[b].live
    /\ \E b \in DOMAIN heap : heap[b].live /\ heap[b].n = 2

\* What == is specified to answer for two handles.
EqualHandles(a, b) ==
    IF hp[a] = NULL \/ hp[b] = NULL THEN hp[a] = NULL /\ hp[b] = NULL
    ELSE IF hp[a] = hp[b] THEN TRUE
    ELSE /\ K(a).m = K(b).m /\ K(a).n = K(b).n
         /\ \A i \in 0 .. K(a).m - 1, j \in 0 .. K(a).n - 1 :
               Cell(K(a), i, j) = Cell(K(b), i, j)

\* C4: handle equality.  Null == Null; Null != Shared; the same buffer is
\* equal; different buffers are equal iff the shapes match and all elements
\* are pairwise equal; != is the negation of ==.
C4_HandleEquality ==
    \A a \in DOMAIN hp, b \in DOMAIN hp :
        (Alive(Store, a) /\ Alive(Store, b)) =>
            /\ Matrix_eq(Store, a, b) = EqualHandles(a, b)
            /\ Matrix_neq(Store, a, b) = ~Matrix_eq(Store, a, b)

\* Two handles with different buffers of the same element count and
\* different shapes, and (in another state) equal contents in two buffers.
C4_Witness ==
    \E a \in DOMAIN hp, b \in DOMAIN hp :
        /\ Shared(Store, a) /\ Shared(Store, b) /\ hp[a] # hp[b]
        /\ K(a).m * K(a).n = K(b).m * K(b).n
        /\ K(a).m # K(b).m
        /\ K(a).data = K(b).data

(***************************************************************************)
(* Calls on matrices drawn from bounded sets.  A run starts with handles   *)
(* a and b (1 and 2) already built and filled element by element; p (3)    *)
(* is not constructed yet.                                                 *)
(***************************************************************************)
MaxEntry == 2   \* element magnitudes of the input matrices
MaxOrder == 3   \* order of the square matrices given to det() and operator/=
NumObjects == 3 \* Matrix objects of a run: a, b and a result p

Objects == 1 .. NumObjects
ObjectBlocks == 1 .. NumObjects + 1

MatsOver(m, n, E) == {[m |-> m, n |-> n, data |-> f] : f \in [0 .. m * n - 1 -> E]}
Ints(S) == {RInt(v) : v \in S}
FromSeq(m, n, s) == [m |-> m, n |-> n, data |-> [x \in 0 .. m * n - 1 |-> RInt(s[x + 1])]]

\* Orders 1 and 2 take every entry of -MaxEntry .. MaxEntry, order 3 takes
\* three of them (zero, one and the largest magnitude, negated), larger
\* orders zero and one.
EntriesFor(n) ==
    IF n <= 2 THEN Ints(-MaxEntry .. MaxEntry)
    ELSE IF n = 3 THEN Ints({-MaxEntry, 0, 1})
    ELSE Ints({0, 1})
SquareInputs(n) == MatsOver(n, n, EntriesFor(n))

\* The matrix of the test scenario, A = [[4, 3], [6, 3]].
Example436 == FromSeq(2, 2, <<4, 3, 6, 3>>)

\* The n x n matrix 1, 2, 3, ... in row order: no two elements are equal.
Ramp(n) == [m |-> n, n |-> n, data |-> [x \in 0 .. n * n - 1 |-> RInt(x + 1)]]

Block(refs, d) == [live |-> TRUE, n |-> refs, d |-> d]

\* Matrix<T> a(..), b(..): two handles, each the only owner of its block.
TwoBuffers(A, B) ==
    /\ hp = [h \in Objects |-> IF h <= 2 THEN h ELSE Dead]
    /\ heap = [b \in ObjectBlocks |-> IF b = 1 THEN Block(1, A)
                                ELSE IF b = 2 THEN Block(1, B) ELSE FreeBlock]

\* Matrix<T> a(..); Matrix<T> b(a): two handles on one block.
OneBuffer(A) ==
    /\ hp = [h \in Objects |-> IF h <= 2 THEN 1 ELSE Dead]
    /\ heap = [b \in ObjectBlocks |-> IF b = 1 THEN Block(2, A) ELSE FreeBlock]

OneCallLeft ==
    /\ fault = "none" /\ last = NoCall /\ nops = MaxOps - 1
    /\ Idle

DetInit ==
    /\ OneCallLeft
    /\ \E n \in 1 .. MaxOrder : \E A \in SquareInputs(n) \cup {Example436} :
          \/ TwoBuffers(A, Identity(n))
          \/ OneBuffer(A)

\* T d = x.det();  det() is a const method: it reads *_p->d and returns.
Det == \E x \in DOMAIN hp :
    /\ fault = "none" /\ nops < MaxOps
    /\ Shared(Store, x) /\ Square(K(x))
    /\ output' = Matrix_det(Store, x)
    /\ last' = [op |-> "det", x |-> x, y |-> 0, z |-> 0, args |-> <<>>,
                pre |-> [hp |-> hp, heap |-> heap]]
    /\ nops' = nops + 1
    /\ UNCHANGED <<hp, heap, fault, pc, input>>

SpecDet == DetInit /\ [][Det]_vars

\* C7: det() returns the determinant of a square matrix: the Leibniz-formula
\* value for every matrix of order <= MaxOrder over the bounded entries (so 0
\* for the singular ones), -6 for [[4, 3], [6, 3]]; and no handle's matrix is
\* changed by the call.
C7_DetIsDeterminant ==
    last.op = "det" =>
        /\ output = Leibniz(Before(last.x).d)
        /\ Before(last.x).d = Example436 => output = RInt(-6)
        /\ \A h \in DOMAIN hp : Now(h) = Before(h)
        /\ heap = last.pre.heap

\* det() has run on a matrix of order 3 that needed a row swap (the largest
\* entry of its last column is not in the last row) and is not singular.
C7_Witness ==
    /\ last.op = "det" /\ Now(last.x).d.n = 3
    /\ RGt(ABS(Now(last.x).d.data[5]), ABS(Now(last.x).d.data[8]))
    /\ output # Zero

\* Right-hand sides of a division: every 0/1 matrix and the ramp for orders
\* 1 and 2, the identity and the ramp above.
DivSelves(n) ==
    IF n <= 2 THEN MatsOver(n, n, Ints({0, 1})) \cup {Ramp(n)}
    ELSE {Identity(n), Ramp(n)}

DivInit ==
    /\ OneCallLeft
    /\ \E n \in 1 .. MaxOrder :
          \/ \E A \in DivSelves(n), B \in SquareInputs(n) : TwoBuffers(A, B)
          \/ \E A \in SquareInputs(n) \cup {Example436} : OneBuffer(A)

SpecDiv == DivInit /\ [][Div]_vars

\* C5: self-division yields the identity.  After x /= y where y is x itself
\* or a handle on x's block (the block holding an invertible matrix), x is the
\* identity of that order, e.g. [[4, 3], [6, 3]] becomes [[1, 0], [0, 1]], and
\* every other handle shows what it showed before.
C5_SelfDivisionIsIdentity ==
    (last.op = "div" /\ last.pre.hp[last.x] = last.pre.hp[last.y]) =>
        /\ fault = "none"
        /\ Now(last.x) = [state |-> "shared", d |-> Identity(Before(last.x).d.n)]
        /\ \A h \in DOMAIN hp \ {last.x} : Now(h) = Before(h)

\* [[4, 3], [6, 3]] has been divided by a second handle on its own block: the
\* dividend is the identity and the second handle still shows [[4, 3], [6, 3]].
C5_Witness ==
    /\ last.op = "div" /\ last.x # last.y
    /\ last.pre.hp[last.x] = last.pre.hp[last.y]
    /\ Before(last.x).d = Example436
    /\ Now(last.x).d = Identity(2)
    /\ Now(last.y).d = Example436

\* C6: division is a left solve.  After self /= other with other invertible
\* and in another block than self, other * self equals the self of before the
\* call, self keeps its shape, and every other handle shows what it showed
\* before.
C6_DivisionIsLeftSolve ==
    (last.op = "div" /\ last.pre.hp[last.x] # last.pre.hp[last.y]) =>
        /\ fault = "none"
        /\ Now(last.x).state = "shared"
        /\ Now(last.x).d.m = Before(last.x).d.m /\ Now(last.x).d.n = Before(last.x).d.n
        /\ MatProduct(Before(last.y).d, Now(last.x).d) = Before(last.x).d
        /\ \A h \in DOMAIN hp \ {last.x} : Now(h) = Before(h)

\* A division by an order-3 matrix whose last column is (1, 0, 0): the first
\* pivot search swaps rows 0 and 2 and finds a pivot equal to 1.
C6_Witness ==
    /\ last.op = "div" /\ last.pre.hp[last.x] # last.pre.hp[last.y]
    /\ Before(last.y).d.n = 3
    /\ Before(last.y).d.data[8] = Zero /\ Before(last.y).d.data[5] = Zero
    /\ Before(last.y).d.data[2] = One
    /\ Now(last.x).d # Before(last.x).d

\* Factors of a product: every matrix over three entries up to four cells,
\* multiples of the ramp 1, 2, 3, ... above.
ProductEntries == Ints({-1, 0, MaxEntry})
Factors(m, n) ==
    IF m * n <= 4 THEN MatsOver(m, n, ProductEntries)
    ELSE {[m |-> m, n |-> n, data |-> [x \in 0 .. m * n - 1 |-> RMul(c, RInt(x + 1))]] :
             c \in ProductEntries \ {Zero}}

MulInit ==
    /\ OneCallLeft
    /\ \/ \E m \in Dims, n \in Dims, n2 \in Dims :
             \E A \in Factors(m, n), B \in Factors(n, n2) : TwoBuffers(A, B)
       \/ \E n \in Dims : \E A \in Factors(n, n) : OneBuffer(A)

SpecMul == MulInit /\ [][Mul]_vars

\* C8: matrix product.  After A *= B, A is the m x n2 matrix of the sums
\* A(i,k) * B(k,j) over the values of before the call, and every other handle
\* (B, or a handle that shared A's block) shows what it showed before; A and
\* B may be one handle or two handles on one block.
C8_ProductInPlace ==
    last.op = "mul" =>
        /\ fault = "none"
        /\ Now(last.x) = [state |-> "shared",
                          d |-> MatProduct(Before(last.x).d, Before(last.y).d)]
        /\ \A h \in DOMAIN hp \ {last.x} : Now(h) = Before(h)

\* A *= B through two handles on one block: A is the square of the old
\* matrix, which differs from it, and B still shows the old matrix.
C8_Witness ==
    /\ last.op = "mul" /\ last.x # last.y
    /\ last.pre.hp[last.x] = last.pre.hp[last.y]
    /\ Now(last.x).d = MatProduct(Before(last.y).d, Before(last.y).d)
    /\ Now(last.x).d # Now(last.y).d
    /\ Now(last.y) = Before(last.y)

\* a and a second handle share an m x n matrix, p holds an n x n matrix: every
\* way for the target of partialProduct to share a block with a factor.
PartialInit ==
    /\ OneCallLeft
    /\ \E m \in Dims, n \in Dims :
         \E A \in MatsOver(m, n, Ints({1, MaxEntry})), B \in MatsOver(n, n, Ints({0, 1})) :
            /\ hp = [h \in Objects |-> IF h <= 2 THEN 1 ELSE IF h = 3 THEN 2 ELSE Dead]
            /\ heap = [b \in ObjectBlocks |-> IF b = 1 THEN Block(2, A)
                                              ELSE IF b = 2 THEN Block(1, B)
                                              ELSE FreeBlock]

PartialNext == PartialProduct \/ PartialProductSelf

SpecPartial == PartialInit /\ [][PartialNext]_vars

InBlock(x, n, args) ==
    /\ x \div n >= args[1] /\ x \div n <= args[2]
    /\ x % n >= args[3] /\ x % n <= args[4]

\* C9: partialProduct under aliasing.  When the target shares a block with m1
\* or m2 before the call (through another handle, or because it is passed as
\* m1 or m2 itself), the call completes, the cells of the block [i1,i2] x
\* [j1,j2] hold the entries of m1 * m2 of before the call, and every other
\* handle shows what it showed before.
C9_PartialProductAliased ==
    (/\ last.op \in {"partialProduct", "partialProductSelf"}
     /\ \/ last.pre.hp[last.x] = last.pre.hp[last.y]
        \/ last.pre.hp[last.x] = last.pre.hp[last.z]) =>
        /\ fault = "none"
        /\ \A c \in DOMAIN Now(last.x).d.data :
              InBlock(c, Now(last.x).d.n, last.args) =>
                 Now(last.x).d.data[c] = MatProduct(Before(last.y).d, Before(last.z).d).data[c]
        /\ \A h \in DOMAIN hp \ {last.x} : Now(h) = Before(h)

\* The same, for targets that are not themselves passed as m1 or m2.
C9_DistinctHandles ==
    last.op = "partialProduct" => C9_PartialProductAliased

(***************************************************************************)
(* Assembling a product block by block (test/main.cpp): p is built from    *)
(* prepareProduct(m1, m2), then partialProduct fills blocks in any order.  *)
(* output is the set of cells some block has covered; last keeps the call  *)
(* made and, as pre, the handles as they were before prepareProduct.       *)
(***************************************************************************)
MaxJunk == 7    \* magnitude of what an uninitialised cell may hold

\* new T[m1._m * m2._n]: every cell holds some value left in memory.
Junk == {[x \in 0 .. MaxDim * MaxDim - 1 |-> v] : v \in Ints({0, -MaxJunk})}

\* The 2 x 4 by 4 x 2 product of the test, for a few right factors.
TestShapes ==
    {<<A, B>> : A \in {FromSeq(2, 4, <<1, 2, 3, 4, 5, 6, 7, 8>>)},
                B \in {FromSeq(4, 2, <<8, 7, 6, 5, 4, 3, 2, 1>>),
                        FromSeq(4, 2, <<1, 2, -1, 3, 2, -2, 1, 1>>)} \cup
                       {b \in MatsOver(4, 2, Ints({0, 1})) : b.data[0] = One /\ b.data[7] = One}}

SmallShapes ==
    UNION {MatsOver(m, n, Ints({1, MaxEntry})) \X MatsOver(n, n2, Ints({0, 1})) :
              <<m, n, n2>> \in Dims \X Dims \X Dims}

AssemblyInit ==
    /\ fault = "none" /\ last = NoCall /\ nops = 0
    /\ pc = "start" /\ input = <<>> /\ output = {}
    /\ \E AB \in SmallShapes \cup TestShapes : TwoBuffers(AB[1], AB[2])

\* Matrix<T> p(Matrix<T>::prepareProduct(m1, m2));
Prepare == \E junk \in Junk :
    /\ pc = "start" /\ fault = "none"
    /\ \E r \in {Matrix_prepareProduct(Store, 3, 1, 2, junk)} :
          hp' = r.hp /\ heap' = r.heap /\ fault' = r.fault
    /\ last' = [op |-> "prepareProduct", x |-> 3, y |-> 1, z |-> 2, args |-> <<>>,
                pre |-> [hp |-> hp, heap |-> heap]]
    /\ pc' = "blocks"
    /\ UNCHANGED <<nops, input, output>>

\* p.partialProduct(m1, m2, i1, i2, j1, j2);
FillBlock ==
    /\ pc = "blocks" /\ fault = "none"
    /\ \E i2 \in 0 .. K(3).m - 1, j2 \in 0 .. K(3).n - 1, asserts \in BOOLEAN :
         \E i1 \in 0 .. i2, j1 \in 0 .. j2 :
            /\ \E r \in {Matrix_partialProduct(Store, 3, 1, 2, i1, i2, j1, j2, asserts)} :
                  hp' = r.hp /\ heap' = r.heap /\ fault' = r.fault
            /\ last' = [last EXCEPT !.op = "partialProduct", !.args = <<i1, i2, j1, j2>>]
            /\ output' = output \cup {c \in DOMAIN K(3).data : InBlock(c, K(3).n, <<i1, i2, j1, j2>>)}
    /\ UNCHANGED <<nops, pc, input>>

AssemblyNext == Prepare \/ FillBlock

SpecAssembly == AssemblyInit /\ [][AssemblyNext]_vars

\* p = m1; p *= m2; carried out on the current handles.
AssignThenMul == Matrix_mul(Matrix_assign(Store, 3, 1), 3, 2)

\* C10: incremental product assembly.  Once blocks filled by partialProduct
\* (in any order, overlapping or not) cover every cell of the matrix made by
\* prepareProduct(m1, m2), p is exactly the matrix that p = m1; p *= m2 gives,
\* and m1 and m2 are as they were.
C10_AssemblyEqualsProduct ==
    (pc = "blocks" /\ output = DOMAIN K(3).data) =>
        /\ fault = "none"
        /\ Now(3) = Value(AssignThenMul, 3)
        /\ Now(3).d.m = K(1).m /\ Now(3).d.n = K(2).n
        /\ Now(1) = Value(AssignThenMul, 1) /\ Now(2) = Value(AssignThenMul, 2)

\* The test's run: the 2 x 4 by 4 x 2 product assembled one row block at a
\* time, row 1 last, into a matrix that is not the junk prepareProduct left.
C10_Witness ==
    /\ pc = "blocks" /\ output = DOMAIN K(3).data
    /\ K(1).n = 4 /\ K(3).m = 2 /\ K(3).n = 2
    /\ last.op = "partialProduct" /\ last.args = <<1, 1, 0, 1>>
    /\ K(3) = MatProduct(K(1), K(2))
    /\ \A c \in DOMAIN K(3).data : K(3).data[c] \notin {Zero, RInt(-MaxJunk)}

(***************************************************************************)
(* cut(): one call with its offsets, on a 3 x 3 or 2 x 3 destination and a *)
(* 2 x 2 or 3 x 2 source whose elements are all different.                 *)
(***************************************************************************)
MaxOffset == 1  \* magnitude of the offsets given to cut()

CutDestinations == {FromSeq(3, 3, <<1, 2, 3, 4, 5, 6, 7, 8, 9>>),
                    FromSeq(2, 3, <<1, 2, 3, 4, 5, 6>>)}
CutSources == {FromSeq(2, 2, <<-1, -2, -3, -4>>),
               FromSeq(3, 2, <<-1, -2, -3, -4, -5, -6>>)}

CutInit ==
    /\ OneCallLeft
    /\ \E A \in CutDestinations, B \in CutSources : TwoBuffers(A, B)

\* x.cut(y, di, dj, si, sj, sm, sn).  junk: what a read outside y's array
\* yields.
CutAt == \E x \in DOMAIN hp, y \in DOMAIN hp :
    /\ Shared(Store, x) /\ Shared(Store, y)
    /\ \E di \in -MaxOffset .. MaxOffset, dj \in -MaxOffset .. MaxOffset,
          si \in 0 .. MaxOffset, sj \in 0 .. MaxOffset,
          sm \in {1, INT_MAX}, sn \in {1, INT_MAX}, junk \in Ints({0, MaxJunk}) :
            Call(Matrix_cut(Store, x, y, di, dj, si, sj, sm, sn, junk),
                 "cut", x, y, 0, <<di, dj, si, sj, sm, sn>>)

SpecCut == CutInit /\ [][CutAt]_vars

Max(a, b) == IF a > b THEN a ELSE b

\* The destination after cut(O, di, dj, si, sj, sm, sn) when a negative
\* destination offset shrinks the region and advances the source offset:
\* rows di' = max(di, 0) onward receive source rows si' = si + max(-di, 0)
\* onward, for min(sm - max(-di, 0), O.m - si', M.m - di') rows; columns alike.
CutExpected(M, O, di, dj, si, sj, sm, sn) ==
    LET di1 == Max(di, 0)
        dj1 == Max(dj, 0)
        si1 == si + Max(0 - di, 0)
        sj1 == sj + Max(0 - dj, 0)
        rows == Min(sm - Max(0 - di, 0), Min(O.m - si1, M.m - di1))
        cols == Min(sn - Max(0 - dj, 0), Min(O.n - sj1, M.n - dj1))
    IN  [M EXCEPT !.data = [c \in DOMAIN M.data |->
            LET i == c \div M.n
                j == c % M.n
            IN  IF /\ rows > 0 /\ cols > 0
                   /\ i >= di1 /\ i < di1 + rows /\ j >= dj1 /\ j < dj1 + cols
                THEN Cell(O, si1 + (i - di1), sj1 + (j - dj1))
                ELSE M.data[c]]]

\* C11: cut with a negative destination offset.  After x.cut(y, di, dj, si,
\* sj, sm, sn) with di < 0 or dj < 0, the call has completed inside both
\* arrays and the destination is the old one with the clipped region
\* replaced: source row si - di lands on destination row 0 (columns alike),
\* e.g. di = -1 on a 3 x 3 destination and a 2 x 2 source copies exactly the
\* source's second row into row 0, columns 0..1; every other cell is unchanged.
C11_CutNegativeOffset ==
    (/\ last.op = "cut" /\ last.pre.hp[last.x] # last.pre.hp[last.y]
     /\ (last.args[1] < 0 \/ last.args[2] < 0)) =>
        /\ fault = "none"
        /\ Now(last.x).d = CutExpected(Before(last.x).d, Before(last.y).d,
                                       last.args[1], last.args[2], last.args[3],
                                       last.args[4], last.args[5], last.args[6])

\* The same for offsets that are not negative.
C11_CutFromOrigin ==
    (/\ last.op = "cut" /\ last.pre.hp[last.x] # last.pre.hp[last.y]
     /\ last.args[1] >= 0 /\ last.args[2] >= 0) =>
        /\ fault = "none"
        /\ Now(last.x).d = CutExpected(Before(last.x).d, Before(last.y).d,
                                       last.args[1], last.args[2], last.args[3],
                                       last.args[4], last.args[5], last.args[6])


(***************************************************************************)
(* StaticMatrix<T>: merge and transpose, and the Matrix<T> methods over    *)
(* them.                                                                   *)
(***************************************************************************)
\* memcpy(&dst[at], &src[from], len * sizeof(T))
memcpy(dst, at, src, from, len) ==
    [x \in DOMAIN dst |-> IF x >= at /\ x < at + len THEN src[from + (x - at)] ELSE dst[x]]

RECURSIVE MergeH_rows(_, _, _, _, _, _, _)
\* while (i) { --i; i2 -= m2._n; i3 -= m2._n; memcpy(&data[i3], &m2._data[i2], m2._n);
\*             i1 -= m1._n; i3 -= m1._n; memcpy(&data[i3], &m1._data[i1], m1._n); }
MergeH_rows(data, m1, m2, i, i1, i2, i3) ==
    IF i = 0 THEN data
    ELSE LET right == memcpy(data, i3 - m2.n, m2.data, i2 - m2.n, m2.n)
             left == memcpy(right, i3 - m2.n - m1.n, m1.data, i1 - m1.n, m1.n)
         IN  MergeH_rows(left, m1, m2, i - 1, i1 - m1.n, i2 - m2.n, i3 - m2.n - m1.n)

\* StaticMatrix::mergeH(m1, m2): [ok, d]; ok is ASSERT(m1._m == m2._m)
StaticMatrix_mergeH(m1, m2) ==
    IF ~(m1.m = m2.m) THEN [ok |-> FALSE]
    ELSE LET m3_n == m1.n + m2.n
             i3 == m1.m * m3_n
         IN  [ok |-> TRUE,
              d |-> [m |-> m1.m, n |-> m3_n,
                     data |-> MergeH_rows(Raw(i3), m1, m2, m1.m, m1.m * m1.n, m2.m * m2.n, i3)]]

\* mergeV that lays m2 above m1.
StaticMatrix_mergeV_swapped(m1, m2) ==
    IF ~(m1.n = m2.n) THEN [ok |-> FALSE]
    ELSE [ok |-> TRUE,
          d |-> [m |-> m1.m + m2.m, n |-> m1.n,
                 data |-> memcpy(memcpy(Raw((m1.m + m2.m) * m1.n), 0, m2.data, 0, m2.m * m2.n),
                                 m2.m * m2.n, m1.data, 0, m1.m * m1.n)]]

\* StaticMatrix::mergeV(m1, m2): [ok, d]; ok is ASSERT(m1._n == m2._n)
StaticMatrix_mergeV(m1, m2) ==
    IF ~(m1.n = m2.n) THEN [ok |-> FALSE]
    ELSE LET m3_m == m1.m + m2.m
             m1_size == m1.m * m1.n
         IN  [ok |-> TRUE,
              d |-> [m |-> m3_m, n |-> m1.n,
                     data |-> memcpy(memcpy(Raw(m3_m * m1.n), 0, m1.data, 0, m1_size),
                                     m1_size, m2.data, 0, m2.m * m2.n)]]

RECURSIVE GetTranspose_i(_, _, _, _, _)
\* while (i) { --i; i1 -= _n; data[--i2] = _data[i1]; }
GetTranspose_i(data, M, i, i1, i2) ==
    IF i = 0 THEN [data |-> data, i2 |-> i2]
    ELSE GetTranspose_i([data EXCEPT ![i2 - 1] = M.data[i1 - M.n]], M, i - 1, i1 - M.n, i2 - 1)

RECURSIVE GetTranspose_loop(_, _, _, _, _)
\* while (i2) { i1 = size + (--i1s); i = _m; ... }
GetTranspose_loop(data, M, size, i1s, i2) ==
    IF i2 = 0 THEN data
    ELSE LET r == GetTranspose_i(data, M, M.m, size + (i1s - 1), i2)
         IN  GetTranspose_loop(r.data, M, size, i1s - 1, r.i2)

\* getTranspose that keeps the element order of the operand.
StaticMatrix_getTranspose_reshape(M) == [m |-> M.n, n |-> M.m, data |-> M.data]

\* StaticMatrix::getTranspose(): a new _n x _m matrix
StaticMatrix_getTranspose(M) ==
    [m |-> M.n, n |-> M.m,
     data |-> GetTranspose_loop(Raw(M.m * M.n), M, M.m * M.n, M.n, M.m * M.n)]

\* Matrix::mergeH(m1, m2), its result constructing handle x
Matrix_mergeH(st, x, y1, y2) ==
    Guarded(st, {y1, y2},
        IF ~(st.hp[y1] # NULL /\ st.hp[y2] # NULL) THEN Failed(st)
        ELSE LET r == StaticMatrix_mergeH(Kernel(st, y1), Kernel(st, y2))
             IN  IF r.ok THEN NewData(st, x, r.d) ELSE Failed(st))

\* Matrix::mergeV(m1, m2), its result constructing handle x
Matrix_mergeV(st, x, y1, y2) ==
    Guarded(st, {y1, y2},
        IF ~(st.hp[y1] # NULL /\ st.hp[y2] # NULL) THEN Failed(st)
        ELSE LET r == StaticMatrix_mergeV(Kernel(st, y1), Kernel(st, y2))
             IN  IF r.ok THEN NewData(st, x, r.d) ELSE Failed(st))

\* Matrix::transpose(), its result constructing handle x
Matrix_transpose(st, x, y) ==
    Guarded(st, {y},
        IF ~(st.hp[y] # NULL) THEN Failed(st)
        ELSE NewData(st, x, StaticMatrix_getTranspose(Kernel(st, y))))


(***************************************************************************)
(* Cutting a matrix in two and joining the parts again:                    *)
(*   Matrix<T> a(m, c), b(m, n - c);  a.cut(M);  b.cut(M, 0, 0, 0, c);     *)
(*   Matrix<T> j(Matrix<T>::mergeH(a, b));                                 *)
(* and the same along a row boundary with mergeV.                          *)
(***************************************************************************)
MaxSide == 3    \* rows and columns of the matrix that is cut and joined

RoundObjects == 1 .. NumObjects + 1

\* Every shape up to MaxSide x MaxSide with no two elements equal, and the
\* 2 x 2 matrices over 0 and 1.
RoundInputs ==
    {[m |-> m, n |-> n, data |-> [x \in 0 .. m * n - 1 |-> RInt(x + 1)]] :
        m \in 1 .. MaxSide, n \in 1 .. MaxSide}
    \cup MatsOver(2, 2, Ints({0, 1}))

RoundInit ==
    /\ fault = "none" /\ last = NoCall /\ nops = 0
    /\ pc = "whole" /\ output = <<>>
    /\ \E A \in RoundInputs :
          /\ hp = [h \in RoundObjects |-> IF h = 1 THEN 1 ELSE Dead]
          /\ heap = [b \in RoundObjects |-> IF b = 1 THEN Block(1, A) ELSE FreeBlock]
          /\ input = [dir |-> "none", at |-> 0, whole |-> A]

\* Matrix<T> a(m, c); a.cut(M);   or   Matrix<T> a(r, n); a.cut(M);
CutFirst == \E dir \in {"H", "V"}, c \in 1 .. MaxSide - 1, junk \in Ints({0, MaxJunk}) :
    /\ pc = "whole" /\ fault = "none"
    /\ c < (IF dir = "H" THEN K(1).n ELSE K(1).m)
    /\ LET pm == IF dir = "H" THEN K(1).m ELSE c
           pn == IF dir = "H" THEN c ELSE K(1).n
       IN  \E r \in {Matrix_cut(Matrix_zero(Store, 2, pm, pn), 2, 1,
                                0, 0, 0, 0, INT_MAX, INT_MAX, junk)} :
              hp' = r.hp /\ heap' = r.heap /\ fault' = r.fault
    /\ last' = [op |-> "cut", x |-> 2, y |-> 1, z |-> 0, args |-> <<0, 0, 0, 0, INT_MAX, INT_MAX>>,
                pre |-> [hp |-> hp, heap |-> heap]]
    /\ input' = [input EXCEPT !.dir = dir, !.at = c]
    /\ pc' = "first"
    /\ UNCHANGED <<nops, output>>

\* Matrix<T> b(m, n - c); b.cut(M, 0, 0, 0, c);   or
\* Matrix<T> b(m - r, n); b.cut(M, 0, 0, r, 0);
CutSecond == \E junk \in Ints({0, MaxJunk}) :
    /\ pc = "first" /\ fault = "none"
    /\ LET c == input.at
           pm == IF input.dir = "H" THEN K(1).m ELSE K(1).m - c
           pn == IF input.dir = "H" THEN K(1).n - c ELSE K(1).n
           si == IF input.dir = "H" THEN 0 ELSE c
           sj == IF input.dir = "H" THEN c ELSE 0
       IN  /\ \E r \in {Matrix_cut(Matrix_zero(Store, 3, pm, pn), 3, 1,
                                   0, 0, si, sj, INT_MAX, INT_MAX, junk)} :
                 hp' = r.hp /\ heap' = r.heap /\ fault' = r.fault
           /\ last' = [op |-> "cut", x |-> 3, y |-> 1, z |-> 0,
                       args |-> <<0, 0, si, sj, INT_MAX, INT_MAX>>,
                       pre |-> [hp |-> hp, heap |-> heap]]
    /\ pc' = "second"
    /\ UNCHANGED <<nops, input, output>>

\* Matrix<T> j(Matrix<T>::mergeH(a, b));   or   Matrix<T> j(Matrix<T>::mergeV(a, b));
Merge ==
    /\ pc = "second" /\ fault = "none"
    /\ \E r \in {IF input.dir = "H" THEN Matrix_mergeH(Store, 4, 2, 3)
                 ELSE Matrix_mergeV(Store, 4, 2, 3)} :
          hp' = r.hp /\ heap' = r.heap /\ fault' = r.fault
    /\ last' = [op |-> IF input.dir = "H" THEN "mergeH" ELSE "mergeV",
                x |-> 4, y |-> 2, z |-> 3, args |-> <<>>,
                pre |-> [hp |-> hp, heap |-> heap]]
    /\ pc' = "merged"
    /\ UNCHANGED <<nops, input, output>>

RoundNext == CutFirst \/ CutSecond \/ Merge

SpecRound == RoundInit /\ [][RoundNext]_vars

\* C12: cut/merge round trip.  For every m x n matrix M and every column
\* boundary 0 < c < n, the left m x c part and the right m x (n - c) part cut
\* out of M and joined with mergeH give M again; for every row boundary
\* 0 < r < m, the top and bottom parts joined with mergeV give M again.  M
\* itself is left as it was.
C12_CutMergeRoundTrip ==
    pc = "merged" =>
        /\ fault = "none"
        /\ Now(4) = [state |-> "shared", d |-> input.whole]
        /\ Now(1) = [state |-> "shared", d |-> input.whole]

\* A 3 x 3 matrix of nine different elements, cut below its second row and
\* joined again.
C12_Witness ==
    /\ pc = "merged" /\ fault = "none"
    /\ input.dir = "V" /\ input.at = 2
    /\ input.whole.m = MaxSide /\ input.whole.n = MaxSide
    /\ Now(2).d.m = 2 /\ Now(3).d.m = 1


(***************************************************************************)
(* The transpose of a product against the product of the transposes:       *)
(*   Matrix<T> p(a); p *= b;  Matrix<T> l(p.transpose());                  *)
(*   Matrix<T> r(b.transpose()), ta(a.transpose());  r *= ta;  l == r      *)
(***************************************************************************)
TransposeObjects == 1 .. 2 * NumObjects
TransposeBlocks == 1 .. 2 * NumObjects + 1

TransposeInit ==
    /\ fault = "none" /\ last = NoCall /\ nops = 0
    /\ pc = "factors" /\ input = <<>> /\ output = FALSE
    /\ \E AB \in SmallShapes \cup TestShapes :
          /\ hp = [h \in TransposeObjects |-> IF h <= 2 THEN h ELSE Dead]
          /\ heap = [b \in TransposeBlocks |->
                        IF b = 1 THEN Block(1, AB[1])
                        ELSE IF b = 2 THEN Block(1, AB[2]) ELSE FreeBlock]

\* One statement of the program: r is the store after it.
Statement(from, to, r, op, x, y) ==
    /\ pc = from /\ fault = "none"
    /\ \E s \in {r} : hp' = s.hp /\ heap' = s.heap /\ fault' = s.fault
    /\ last' = [op |-> op, x |-> x, y |-> y, z |-> 0, args |-> <<>>,
                pre |-> [hp |-> hp, heap |-> heap]]
    /\ pc' = to
    /\ UNCHANGED <<nops, input, output>>

\* Matrix<T> p(a); p *= b;
Product == Statement("factors", "product", Matrix_mul(Matrix_copy(Store, 3, 1), 3, 2), "mul", 3, 2)

\* Matrix<T> l(p.transpose());
TransposeProduct == Statement("product", "left", Matrix_transpose(Store, 4, 3), "transpose", 4, 3)

\* Matrix<T> r(b.transpose());
TransposeRight == Statement("left", "tb", Matrix_transpose(Store, 5, 2), "transpose", 5, 2)

\* Matrix<T> ta(a.transpose());
TransposeLeft == Statement("tb", "ta", Matrix_transpose(Store, 6, 1), "transpose", 6, 1)

\* r *= ta;
ProductOfTransposes == Statement("ta", "right", Matrix_mul(Store, 5, 6), "mul", 5, 6)

\* l == r
Compare ==
    /\ pc = "right" /\ fault = "none"
    /\ output' = Matrix_eq(Store, 4, 5)
    /\ pc' = "compared"
    /\ UNCHANGED <<hp, heap, fault, last, nops, input>>

TransposeNext ==
    \/ Product \/ TransposeProduct \/ TransposeRight \/ TransposeLeft
    \/ ProductOfTransposes \/ Compare

SpecTranspose == TransposeInit /\ [][TransposeNext]_vars

\* C13: transposition.  transpose() of an m x n matrix M is the n x m matrix
\* T with T(j, i) = M(i, j) and leaves M as it was; and for all compatible A
\* and B, transpose(A * B) == transpose(B) * transpose(A).
C13_TransposeOfProduct ==
    /\ last.op = "transpose" =>
          /\ fault = "none"
          /\ Now(last.x).state = "shared"
          /\ Now(last.x).d.m = Before(last.y).d.n
          /\ Now(last.x).d.n = Before(last.y).d.m
          /\ \A i \in 0 .. Before(last.y).d.m - 1, j \in 0 .. Before(last.y).d.n - 1 :
                Cell(Now(last.x).d, j, i) = Cell(Before(last.y).d, i, j)
          /\ \A h \in DOMAIN hp \ {last.x} : Now(h) = Before(h)
    /\ pc = "compared" =>
          /\ fault = "none"
          /\ output = TRUE
          /\ Now(4) = Now(5)

\* The 2 x 4 by 4 x 2 product of the test: its transpose is not the product
\* of the factors in the given order, and equals the product of the
\* transposes in reverse order.
C13_Witness ==
    /\ pc = "compared" /\ output = TRUE
    /\ Now(1).d.m = 2 /\ Now(1).d.n = 4
    /\ Now(4).d # Now(3).d
    /\ Now(6).d.m = 4 /\ Now(6).d.n = 2 /\ Now(6).d.data # Now(1).d.data


(***************************************************************************)
(* StaticMatrix<T>::pseudoInverse.  The elimination works on _data and on  *)
(* a local matrix V; what follows it fills the local arrays result, Lm and *)
(* Rm, which are never copied into the object, and returns *this.          *)
(***************************************************************************)
SizeOfT == 8    \* sizeof(double)

RECURSIVE Pinv_pivot(_, _, _, _, _, _, _, _)
\* while ((index += _n) < size) { ++itmp1; temp = ABS(_data[index]);
\*     if (temp > maxAbs) { maxAbs = temp; itmp4 = index; itmp3 = itmp1; } }
Pinv_pivot(data, n, size, index, itmp1, maxAbs, itmp4, itmp3) ==
    IF ~(index + n < size) THEN [maxAbs |-> maxAbs, itmp4 |-> itmp4, itmp3 |-> itmp3]
    ELSE LET temp == ABS(data[index + n])
         IN  IF RGt(temp, maxAbs)
             THEN Pinv_pivot(data, n, size, index + n, itmp1 + 1, temp, index + n, itmp1 + 1)
             ELSE Pinv_pivot(data, n, size, index + n, itmp1 + 1, maxAbs, itmp4, itmp3)

\* memcpy(swap1, &_data[lindex], swapsize1); memcpy(&_data[lindex], &_data[itmp4], swapsize1);
\* memcpy(&_data[itmp4], swap1, swapsize1);  swapsize1 = _n - x counts bytes,
\* not elements: the elements wholly inside the first swapsize1 bytes are
\* exchanged, and an element covered in part keeps its value when the bytes
\* exchanged are equal and becomes the value `part.v` otherwise.
Pinv_swap(data, lindex, itmp4, swapsize1, part) ==
    LET whole == swapsize1 \div SizeOfT
        rest == swapsize1 % SizeOfT
    IN  [c \in DOMAIN data |->
            IF c >= lindex /\ c < lindex + whole THEN data[itmp4 + (c - lindex)]
            ELSE IF c >= itmp4 /\ c < itmp4 + whole THEN data[lindex + (c - itmp4)]
            ELSE IF rest > 0 /\ ~part.kept /\ c \in {lindex + whole, itmp4 + whole}
            THEN part.v
            ELSE data[c]]

RECURSIVE Pinv_scale(_, _, _, _)
\* while (--itmp2 > lindex) _data[itmp2] /= maxAbs;
Pinv_scale(data, itmp2, lindex, maxAbs) ==
    IF ~(itmp2 - 1 > lindex) THEN data
    ELSE Pinv_scale([data EXCEPT ![itmp2 - 1] = RDiv(@, maxAbs)], itmp2 - 1, lindex, maxAbs)

RECURSIVE Pinv_row(_, _, _, _, _)
\* for (itmp2 = _n - x; --itmp2 > 0;) _data[itmp3 + itmp2] -= temp * _data[lindex + itmp2];
Pinv_row(data, itmp3, lindex, itmp2, temp) ==
    IF ~(itmp2 - 1 > 0) THEN data
    ELSE Pinv_row([data EXCEPT ![itmp3 + (itmp2 - 1)] =
                       RSub(@, RMul(temp, data[lindex + (itmp2 - 1)]))],
                  itmp3, lindex, itmp2 - 1, temp)

RECURSIVE Pinv_eliminate(_, _, _, _, _, _, _)
\* for (itmp3 = size + x, itmp4 = _m * _m; (itmp3 -= _n, itmp4 -= _m) >= 0;)
\*   { if (itmp3 == lindex) continue; temp = _data[itmp3]; if (temp == 0) continue; ... }
Pinv_eliminate(data, m, n, x, lindex, itmp3, itmp4) ==
    IF ~(itmp4 - m >= 0) THEN data
    ELSE LET row == itmp3 - n
             temp == data[row]
             next == IF row = lindex \/ temp = Zero THEN data
                     ELSE Pinv_row(data, row, lindex, n - x, temp)
         IN  Pinv_eliminate(next, m, n, x, lindex, row, itmp4 - m)

RECURSIVE Pinv_loop(_, _, _, _, _, _, _, _, _)
\* while (true) { ... }: [data, y, oob].  oob: V[itmp1 + _m] /= maxAbs wrote
\* past the end of V (the do-while starts one element after row y of V).
Pinv_loop(data, m, n, x, y, lindex, negligible, part, oob) ==
    LET scan == Pinv_pivot(data, n, n * m, lindex, y, ABS(data[lindex]), lindex, y)
    IN  IF ~RGt(scan.maxAbs, negligible)
        THEN IF x + 1 >= n THEN [data |-> data, y |-> y, oob |-> oob]
             ELSE Pinv_loop(data, m, n, x + 1, y, lindex + 1, negligible, part, oob)
        ELSE LET itmp1 == m * y
                 swapped == IF scan.itmp4 # lindex
                            THEN Pinv_swap(data, lindex, scan.itmp4, n - x, part)
                            ELSE data
                 maxAbs == swapped[lindex]
                 scaled == IF maxAbs # One
                           THEN Pinv_scale(swapped, lindex + n - x, lindex, maxAbs)
                           ELSE swapped
                 oob2 == oob \/ (maxAbs # One /\ itmp1 + m >= m * m)
                 done == Pinv_eliminate(scaled, m, n, x, lindex, n * m + x, m * m)
             IN  IF (x + 1 >= n) \/ (y + 1 >= m)
                 THEN [data |-> done, y |-> y + 1, oob |-> oob2]
                 ELSE Pinv_loop(done, m, n, x + 1, y + 1, lindex + n + 1,
                                negligible, part, oob2)

\* StaticMatrix::pseudoInverse(negligible): [d, oob].  Rank 0 (y == 0) zeroes
\* _data and exchanges _m and _n; any other rank returns with _m, _n and the
\* eliminated _data as they are.
StaticMatrix_pseudoInverse(M, negligible, part) ==
    LET r == Pinv_loop(M.data, M.m, M.n, 0, 0, 0, negligible, part, FALSE)
    IN  IF r.y = 0
        THEN [d |-> [m |-> M.n, n |-> M.m, data |-> [c \in DOMAIN M.data |-> Zero]],
              oob |-> r.oob]
        ELSE [d |-> [M EXCEPT !.data = r.data], oob |-> r.oob]

\* The matrices given to pseudoInverse(): every matrix up to 2 x 2 over
\* -1 .. MaxEntry, and three tall ones of full column rank.
PinvInputs ==
    UNION {MatsOver(m, n, Ints(-1 .. MaxEntry)) : <<m, n>> \in Dims \X Dims}
    \cup {FromSeq(3, 1, <<1, 1, 1>>), FromSeq(3, 2, <<1, 0, 0, 1, 0, 0>>),
          FromSeq(3, 2, <<1, 2, 3, 4, 5, 6>>)}

PinvInit ==
    /\ OneCallLeft
    /\ \E A \in PinvInputs :
          /\ hp = [h \in {1} |-> 1]
          /\ heap = [b \in {1} |-> Block(1, A)]

\* a.pseudoInverse();  on the kernel object that handle 1 owns
PseudoInverse == \E kept \in BOOLEAN :
    /\ fault = "none" /\ nops < MaxOps
    /\ \E r \in {StaticMatrix_pseudoInverse(K(1), Zero, [kept |-> kept, v |-> RInt(MaxJunk)])} :
          /\ heap' = [heap EXCEPT ![1].d = r.d]
          /\ fault' = IF r.oob THEN "out_of_bounds" ELSE "none"
    /\ last' = [op |-> "pseudoInverse", x |-> 1, y |-> 0, z |-> 0, args |-> <<>>,
                pre |-> [hp |-> hp, heap |-> heap]]
    /\ nops' = nops + 1
    /\ UNCHANGED <<hp, pc, input, output>>

SpecPinv == PinvInit /\ [][PseudoInverse]_vars

\* The n x n matrix of rows f[0] < f[1] < .. of A.
RowsOf(A, f) ==
    [m |-> A.n, n |-> A.n,
     data |-> [c \in 0 .. A.n * A.n - 1 |-> Cell(A, f[c \div A.n], c % A.n)]]

\* rank(A) = A.n: some n rows of A have a determinant that is not zero
FullColumnRank(A) ==
    \E f \in [0 .. A.n - 1 -> 0 .. A.m - 1] :
        /\ \A i \in DOMAIN f, j \in DOMAIN f : i < j => f[i] < f[j]
        /\ Leibniz(RowsOf(A, f)) # Zero

IsZero(A) == \A c \in DOMAIN A.data : A.data[c] = Zero

\* C14: Moore-Penrose identities.  For every matrix A of full column rank,
\* after pseudoInverse() (negligible = 0) the object P has A's transposed
\* dimensions, and A * P * A == A and P * A * P == P.
C14_MoorePenrose ==
    (last.op = "pseudoInverse" /\ FullColumnRank(Before(1).d)) =>
        /\ fault = "none"
        /\ Now(1).d.m = Before(1).d.n
        /\ Now(1).d.n = Before(1).d.m
        /\ MatProduct(MatProduct(Before(1).d, Now(1).d), Before(1).d) = Before(1).d
        /\ MatProduct(MatProduct(Now(1).d, Before(1).d), Now(1).d) = Now(1).d

\* Rank 0: the zero matrix becomes the zero matrix of transposed dimensions.
C14_RankZero ==
    (last.op = "pseudoInverse" /\ IsZero(Before(1).d)) =>
        /\ fault = "none"
        /\ Now(1).d.m = Before(1).d.n /\ Now(1).d.n = Before(1).d.m
        /\ IsZero(Now(1).d)

\* Any other rank: the object keeps its dimensions.
C14_ShapeKept ==
    (last.op = "pseudoInverse" /\ ~IsZero(Before(1).d)) =>
        /\ Now(1).d.m = Before(1).d.m /\ Now(1).d.n = Before(1).d.n


(***************************************************************************)
(* Division by a matrix that has no inverse.                               *)
(***************************************************************************)
\* Every matrix without inverse of order 1 and 2 over -MaxEntry .. MaxEntry;
\* of the larger orders the ramp 1, 2, 3, ... and the zero matrix.
SingularInputs(n) ==
    IF n <= 2 THEN SquareInputs(n) ELSE {Ramp(n), StaticMatrix_zero(n, n)}

SingularInit ==
    /\ OneCallLeft
    /\ \E n \in 1 .. MaxOrder :
          \E B \in {S \in SingularInputs(n) : ~Invertible(S)} :
             \/ \E A \in DivSelves(n) : TwoBuffers(A, B)
             \/ OneBuffer(B)

\* x /= y;  for a y without inverse, in a build with or without ASSERT
DivSingular == \E x \in DOMAIN hp, y \in DOMAIN hp, asserts \in BOOLEAN :
    /\ Shared(Store, x) /\ Shared(Store, y) /\ SameShape(x, y) /\ ~Invertible(K(y))
    /\ Call(Matrix_div(Store, x, y, asserts), "div", x, y, 0, <<asserts>>)

SpecSingular == SingularInit /\ [][DivSingular]_vars

\* C15: dividing by a singular matrix is a precondition violation.  For every
\* singular square matrix `other`, self /= other ends in the precondition
\* failure of the zero pivot and in no numeric answer, also when other is
\* self or shares self's block.
C15_SingularDivisionFails ==
    (last.op = "div" /\ ~Invertible(Before(last.y).d)) => fault = "assert"

\* The same for operands in two blocks, in a build that keeps ASSERT.
C15_DistinctBlocksChecked ==
    (/\ last.op = "div" /\ ~Invertible(Before(last.y).d)
     /\ last.pre.hp[last.x] # last.pre.hp[last.y] /\ last.args[1]) => fault = "assert"

\* Operands on one block: the answer is the identity matrix.
C15_SharedBlockIdentity ==
    (/\ last.op = "div" /\ ~Invertible(Before(last.y).d)
     /\ last.pre.hp[last.x] = last.pre.hp[last.y]) =>
        /\ fault = "none"
        /\ Now(last.x).d = Identity(Before(last.y).d.n)


(***************************************************************************)
(* operator+= and operator-= on operands of any two shapes.                *)
(***************************************************************************)
\* Every shape up to MaxDim x MaxDim, filled with c, 2c, 3c, ...
ShapeInputs(c) ==
    {[m |-> m, n |-> n, data |-> [x \in 0 .. m * n - 1 |-> RInt(c * (x + 1))]] :
        m \in Dims, n \in Dims}

ShapeInit ==
    /\ OneCallLeft
    /\ \/ \E A \in ShapeInputs(1), B \in ShapeInputs(MaxJunk + 1) : TwoBuffers(A, B)
       \/ \E A \in ShapeInputs(1) : OneBuffer(A)

\* x += y;  whatever the two shapes are, in a build with or without ASSERT
AddAny == \E x \in DOMAIN hp, y \in DOMAIN hp, asserts \in BOOLEAN, junk \in Ints({MaxJunk}) :
    /\ Shared(Store, x) /\ Shared(Store, y)
    /\ Call(Matrix_add(Store, x, y, asserts, junk), "add", x, y, 0, <<asserts>>)

\* x -= y;
SubAny == \E x \in DOMAIN hp, y \in DOMAIN hp, asserts \in BOOLEAN, junk \in Ints({MaxJunk}) :
    /\ Shared(Store, x) /\ Shared(Store, y)
    /\ Call(Matrix_sub(Store, x, y, asserts, junk), "sub", x, y, 0, <<asserts>>)

ShapeNext == AddAny \/ SubAny

SpecShape == ShapeInit /\ [][ShapeNext]_vars

\* self(i, j) + other(i, j), or the difference, for every element
Elementwise(op, A, B) ==
    [A EXCEPT !.data = [c \in DOMAIN A.data |->
                           IF op = "add" THEN RAdd(A.data[c], B.data[c])
                           ELSE RSub(A.data[c], B.data[c])]]

SameShapeBefore ==
    /\ Before(last.x).d.m = Before(last.y).d.m
    /\ Before(last.x).d.n = Before(last.y).d.n

\* C16: += and -= require identical shapes.  Whenever self and other differ
\* in the number of rows or in the number of columns (either one alone), the
\* operation is a precondition failure and no handle changes; when the shapes
\* match, every element becomes self(i, j) + other(i, j) (or the difference),
\* also when other is self.
C16_AddSubShapes ==
    last.op \in {"add", "sub"} =>
        IF SameShapeBefore
        THEN /\ fault = "none"
             /\ Now(last.x).d = Elementwise(last.op, Before(last.x).d, Before(last.y).d)
        ELSE /\ fault = "assert"
             /\ \A h \in DOMAIN hp : Now(h) = Before(h)

\* Operands of one shape, other being self or not.
C16_SameShape ==
    (last.op \in {"add", "sub"} /\ SameShapeBefore) =>
        /\ fault = "none"
        /\ Now(last.x).d = Elementwise(last.op, Before(last.x).d, Before(last.y).d)

\* Operands that differ in rows and in columns, in a build that keeps ASSERT.
C16_BothDiffer ==
    (/\ last.op \in {"add", "sub"} /\ last.args[1]
     /\ Before(last.x).d.m # Before(last.y).d.m
     /\ Before(last.x).d.n # Before(last.y).d.n) =>
        /\ fault = "assert"
        /\ \A h \in DOMAIN hp : Now(h) = Before(h)


(***************************************************************************)
(* Element access with any int arguments.                                  *)
(***************************************************************************)
\* Indices around 0, around the sizes in use and around 2^16, of both signs
AccessIndices ==
    {0 - Pow2_16, 0 - 1, 0, 1, MaxDim, Pow2_16 - 1, Pow2_16, Pow2_16 + 1}

AccessInit ==
    /\ OneCallLeft
    /\ \/ \E A \in ShapeInputs(1), B \in ShapeInputs(MaxJunk + 1) : TwoBuffers(A, B)
       \/ \E A \in ShapeInputs(1) : OneBuffer(A)

\* x(i, j) = v;
SetAt == \E x \in DOMAIN hp, i \in AccessIndices, j \in AccessIndices, asserts \in BOOLEAN :
    /\ Shared(Store, x)
    /\ Call(Matrix_set(Store, x, i, j, RInt(0 - MaxJunk), asserts), "setAt", x, 0, 0,
            <<i, j, asserts, RInt(0 - MaxJunk)>>)

\* T v = x(i, j);  through a const reference to x
GetAt == \E x \in DOMAIN hp, i \in AccessIndices, j \in AccessIndices, asserts \in BOOLEAN :
    /\ Shared(Store, x)
    /\ fault = "none" /\ nops < MaxOps
    /\ \E r \in {Matrix_at(Store, x, i, j, asserts, RInt(MaxJunk))} :
          /\ fault' = r.st.fault
          /\ output' = r.v
    /\ last' = [op |-> "at", x |-> x, y |-> 0, z |-> 0, args |-> <<i, j, asserts>>,
                pre |-> [hp |-> hp, heap |-> heap]]
    /\ nops' = nops + 1
    /\ UNCHANGED <<hp, heap, pc, input>>

AccessNext == SetAt \/ GetAt

SpecAccess == AccessInit /\ [][AccessNext]_vars

\* The call named element (i, j) of the matrix as it was.
AccessInBounds ==
    /\ 0 <= last.args[1] /\ last.args[1] < Before(last.x).d.m
    /\ 0 <= last.args[2] /\ last.args[2] < Before(last.x).d.n

\* The access went to offset i * cols + j and to nothing else.
AccessDone ==
    LET A == Before(last.x).d
        at == last.args[1] * A.n + last.args[2]
    IN  /\ fault = "none"
        /\ last.op = "at" => output = A.data[at]
        /\ last.op = "at" => Now(last.x) = Before(last.x)
        /\ last.op = "setAt" => Now(last.x).d = [A EXCEPT !.data[at] = last.args[4]]
        /\ \A h \in DOMAIN hp \ {last.x} : Now(h) = Before(h)

\* C17: bounds-checked element access.  (i, j) on a shared handle succeeds only
\* when 0 <= i < rows and 0 <= j < cols and refers to offset i * cols + j; for
\* every other pair of integers, negative ones and values of 2^16 and more
\* included, it is a precondition failure and no element is read or written.
C17_ElementAccess ==
    last.op \in {"at", "setAt"} =>
        IF AccessInBounds THEN AccessDone
        ELSE /\ fault = "assert"
             /\ \A h \in DOMAIN hp : Now(h) = Before(h)

\* Pairs inside the matrix.
C17_InBounds == (last.op \in {"at", "setAt"} /\ AccessInBounds) => AccessDone

\* Pairs outside the matrix that fit 16 bits, in a build that keeps ASSERT.
C17_Within16Bits ==
    (/\ last.op \in {"at", "setAt"} /\ ~AccessInBounds /\ last.args[3]
     /\ last.args[1] \in 0 .. Pow2_16 - 1 /\ last.args[2] \in 0 .. Pow2_16 - 1) =>
        /\ fault = "assert"
        /\ \A h \in DOMAIN hp : Now(h) = Before(h)


(***************************************************************************)
(* Allocation sizes.  Every operation that makes a new T[] computes the    *)
(* size as a product of ints; ASSERT_INT, where the operation has one,     *)
(* compares the same product taken in unsigned long long with INT_MAX.     *)
(* The matrices of this part are large, and their elements are left out:   *)
(* data is <<>>.                                                           *)
(***************************************************************************)
\* ASSERT_INT(((unsigned long long) a) * ((unsigned long long) b)), for a, b >= 0
ASSERT_INT_mul(a, b) == b = 0 \/ a <= INT_MAX \div b

\* StaticMatrix(int m, int n): size_t size = m * n
Sizing_construct(m, n) == [ok |-> ASSERT_INT_mul(m, n), rows |-> m, cols |-> n]

\* getProduct: new T[(index3 = _m * other._n)]
Sizing_getProduct(M, O) ==
    [ok |-> ASSERT_INT_mul(M.m, O.n) /\ ASSERT_INT_mul(M.n + 1, O.n), rows |-> M.m, cols |-> O.n]

\* prepareProduct: new T[m1._m * m2._n]
Sizing_prepareProduct(m1, m2) ==
    [ok |-> ASSERT_INT_mul(m1.m, m2.n) /\ ASSERT_INT_mul(m1.n + 1, m2.n),
     rows |-> m1.m, cols |-> m2.n]

\* timesTranspose: new T[(index = _m * other._m)], with no ASSERT_INT
Sizing_timesTranspose(M, O) == [ok |-> TRUE, rows |-> M.m, cols |-> O.m]

\* mergeH: new T[m1._m * (m1._n + m2._n)]
Sizing_mergeH(m1, m2) ==
    [ok |-> ASSERT_INT_mul(m1.m, m1.n + m2.n), rows |-> m1.m, cols |-> m1.n + m2.n]

\* mergeV: new T[(m1._m + m2._m) * m1._n]
Sizing_mergeV(m1, m2) ==
    [ok |-> ASSERT_INT_mul(m1.m + m2.m, m1.n), rows |-> m1.m + m2.m, cols |-> m1.n]

\* pseudoInverse: V = new T[(size = _m * _m)], with no ASSERT_INT
Sizing_pseudoInverse(M) == [ok |-> TRUE, rows |-> M.m, cols |-> M.m]

BigDim == 46341     \* a dimension whose square does not fit an int

BigDims == {1, 2, BigDim - 1, BigDim, Pow2_16}

\* The matrices that exist: rows * cols fits an int.
BigShapes ==
    {[m |-> m, n |-> n, data |-> <<>>] : <<m, n>> \in {d \in BigDims \X BigDims :
                                                           ASSERT_INT_mul(d[1], d[2])}}

SizeOps == {"construct", "product", "prepareProduct", "timesTranspose",
            "mergeH", "mergeV", "pseudoInverse"}

\* The ASSERT(...) on the operands' shapes that precedes the sizing.
Compatible(op, A, B) ==
    CASE op \in {"product", "prepareProduct"} -> A.n = B.m
      [] op \in {"timesTranspose", "mergeV"} -> A.n = B.n
      [] op = "mergeH" -> A.m = B.m
      [] OTHER -> TRUE

SizingOf(op, A, B, m, n) ==
    CASE op = "construct" -> Sizing_construct(m, n)
      [] op = "product" -> Sizing_getProduct(A, B)
      [] op = "prepareProduct" -> Sizing_prepareProduct(A, B)
      [] op = "timesTranspose" -> Sizing_timesTranspose(A, B)
      [] op = "mergeH" -> Sizing_mergeH(A, B)
      [] op = "mergeV" -> Sizing_mergeV(A, B)
      [] op = "pseudoInverse" -> Sizing_pseudoInverse(A)

SizeInit ==
    /\ OneCallLeft
    /\ \E A \in BigShapes, B \in BigShapes : TwoBuffers(A, B)

\* One operation that allocates, on a (1) and b (2), its result (if it has
\* one) constructing handle 3.  asserts: the build keeps ASSERT.  A size that
\* does not fit an int is a signed overflow: the allocation then throws
\* (bad_alloc) or is too small for the loops that fill it (out_of_bounds).
Allocate == \E op \in SizeOps, m \in BigDims, n \in BigDims, asserts \in BOOLEAN,
               overflow \in {"bad_alloc", "out_of_bounds"} :
    /\ Compatible(op, K(1), K(2))
    /\ op # "construct" => (m = 1 /\ n = 1)
    /\ LET z == SizingOf(op, K(1), K(2), m, n)
           r == IF asserts /\ ~z.ok THEN Failed(Store)
                ELSE IF ~ASSERT_INT_mul(z.rows, z.cols) THEN [Store EXCEPT !.fault = overflow]
                ELSE IF op = "pseudoInverse" THEN Store
                ELSE NewData(Store, 3, [m |-> z.rows, n |-> z.cols, data |-> <<>>])
       IN  Call(r, op, 3, 1, 2, <<m, n, asserts>>)

SpecSize == SizeInit /\ [][Allocate]_vars

\* The size the operation needs is more than INT_MAX.
NeedsTooMuch ==
    LET A == Before(1).d
        B == Before(2).d
        rc == CASE last.op = "construct" -> <<last.args[1], last.args[2]>>
                [] last.op \in {"product", "prepareProduct"} -> <<A.m, B.n>>
                [] last.op = "timesTranspose" -> <<A.m, B.m>>
                [] last.op = "mergeH" -> <<A.m, A.n + B.n>>
                [] last.op = "mergeV" -> <<A.m + B.m, A.n>>
                [] last.op = "pseudoInverse" -> <<A.m, A.m>>
    IN  rc[1] > INT_MAX \div rc[2]

\* C18: size overflow fails explicitly.  Every allocation size that would
\* exceed the int range (rows * cols on construction, A.rows * B.cols for
\* product and prepareProduct, A.rows * B.rows for timesTranspose, the merged
\* size for mergeH and mergeV, rows * rows for pseudoInverse) is rejected by a
\* precondition failure before anything is allocated.
C18_SizeOverflowRejected ==
    (last.op \in SizeOps /\ NeedsTooMuch) =>
        /\ fault = "assert"
        /\ \A h \in DOMAIN hp : Now(h) = Before(h)

\* The operations that have an ASSERT_INT on their size, in a build that
\* keeps ASSERT.
C18_CheckedSites ==
    (/\ last.op \in SizeOps \ {"timesTranspose", "pseudoInverse"}
     /\ NeedsTooMuch /\ last.args[3]) =>
        /\ fault = "assert"
        /\ \A h \in DOMAIN hp : Now(h) = Before(h)


(***************************************************************************)
(* Neuron and BrainInterface (src/MLP/src/neuron.cpp).  In this part heap  *)
(* holds the Neuron objects made with new, hp the BrainInterface object    *)
(* (its two lists and `previous`), and pc the client's progress.  Weights  *)
(* and values are left out: deletion does not read them, and training is   *)
(* followed by its counters: sum and a connection's e hold how many        *)
(* influences were added since they were last set to 0.                    *)
(***************************************************************************)
NumNeurons == 5     \* neurons of the network: two inputs, one hidden, two outputs

Neurons == 1 .. NumNeurons
InputLayer == {1, 2}
OutputLayer == {NumNeurons - 1, NumNeurons}
Layer(n) == IF n \in InputLayer THEN 0 ELSE IF n \in OutputLayer THEN 2 ELSE 1

\* new Neuron(activ, deriv): connectedTo(0), waitingFor(0), sum(0), no
\* connection; e[i] is backwardConnections[i].e
Neuron_new ==
    [live |-> TRUE, deletes |-> 0, connectedTo |-> 0, waitingFor |-> 0, sum |-> 0,
     backwardConnections |-> <<>>, e |-> <<>>]

\* this->connectTo(otherNeuron): to_add.e = 0; waitingFor = ++connectedTo;
\* otherNeuron->backwardConnections.append(to_add) with to_add.source = this
Neuron_connectTo(h, this, otherNeuron) ==
    [h EXCEPT ![this].connectedTo = @ + 1,
              ![this].waitingFor = h[this].connectedTo + 1,
              ![otherNeuron].backwardConnections = Append(@, this),
              ![otherNeuron].e = Append(@, 0)]

\* delete neuron
Neuron_delete(st, n) ==
    IF ~st.heap[n].live THEN [st EXCEPT !.fault = "double_delete"]
    ELSE [st EXCEPT !.heap[n].live = FALSE, !.heap[n].deletes = @ + 1]

\* BrainInterface::deleteLater(neuron)
BrainInterface_deleteLater(st, neuron) ==
    [(IF st.previous # NULL THEN Neuron_delete(st, st.previous) ELSE st)
        EXCEPT !.previous = neuron]

RECURSIVE Neuron_brainDelete(_, _)
RECURSIVE BrainDelete_sources(_, _, _)
\* for (i = backwardConnections.length() - 1; i >= 0; --i)
\*     backwardConnections.at(i).source->brainDelete(brain);
\* i counts the connections still to visit.
BrainDelete_sources(st, this, i) ==
    IF i = 0 \/ st.fault # "none" THEN st
    ELSE BrainDelete_sources(
             Neuron_brainDelete(st, st.heap[this].backwardConnections[i]), this, i - 1)

\* Neuron::brainDelete(brain): if (--waitingFor != 0) return; ...; brain->deleteLater(this);
Neuron_brainDelete(st, this) ==
    IF st.fault # "none" THEN st
    ELSE IF ~st.heap[this].live THEN [st EXCEPT !.fault = "use_after_free"]
    ELSE LET s1 == [st EXCEPT !.heap[this].waitingFor = @ - 1]
         IN  IF s1.heap[this].waitingFor # 0 THEN s1
             ELSE BrainInterface_deleteLater(
                      BrainDelete_sources(s1, this, Len(s1.heap[this].backwardConnections)),
                      this)

RECURSIVE DeleteBrain_outputs(_, _, _)
\* for (i = outputNeurons.length() - 1; i >= 0; --i) outputNeurons.at(i)->brainDelete(this);
DeleteBrain_outputs(st, outputNeurons, i) ==
    IF i = 0 THEN st
    ELSE DeleteBrain_outputs(Neuron_brainDelete(st, outputNeurons[i]), outputNeurons, i - 1)

\* BrainInterface::deleteBrain(): [heap, previous, fault, inputNeurons, outputNeurons]
BrainInterface_deleteBrain(h, brain) ==
    LET s1 == DeleteBrain_outputs([heap |-> h, previous |-> brain.previous, fault |-> "none"],
                                  brain.outputNeurons, Len(brain.outputNeurons))
        s2 == IF s1.previous # NULL
              THEN [Neuron_delete(s1, s1.previous) EXCEPT !.previous = NULL]
              ELSE s1
    IN  [heap |-> s2.heap, fault |-> s2.fault,
         brain |-> [inputNeurons |-> <<>>, outputNeurons |-> <<>>, previous |-> s2.previous]]

NoBrain == [inputNeurons |-> <<>>, outputNeurons |-> <<>>, previous |-> NULL]

\* The neurons have been made, one new each; nothing is connected yet.
BrainInit ==
    /\ heap = [n \in Neurons |-> Neuron_new]
    /\ hp = NoBrain
    /\ fault = "none" /\ last = NoCall /\ nops = 0
    /\ pc = "building" /\ input = <<>> /\ output = <<>>

\* from->connectTo(to);  towards a later layer, each pair once
ConnectTo == \E from \in Neurons, to \in Neurons :
    /\ pc = "building"
    /\ Layer(from) < Layer(to)
    /\ \A i \in DOMAIN heap[to].backwardConnections : heap[to].backwardConnections[i] # from
    /\ heap' = Neuron_connectTo(heap, from, to)
    /\ UNCHANGED <<hp, fault, last, nops, pc, input, output>>

\* BrainInterface *interface = new BrainInterface(inputNeurons, outputNeurons);
NewBrainInterface ==
    /\ pc = "building"
    /\ hp' = [inputNeurons |-> <<1, 2>>, outputNeurons |-> <<NumNeurons - 1, NumNeurons>>,
              previous |-> NULL]
    /\ pc' = "built"
    /\ UNCHANGED <<heap, fault, last, nops, input, output>>

\* interface->deleteBrain();
DeleteBrain ==
    /\ pc = "built"
    /\ \E r \in {BrainInterface_deleteBrain(heap, hp)} :
          heap' = r.heap /\ hp' = r.brain /\ fault' = r.fault
    /\ pc' = "deleted"
    /\ UNCHANGED <<last, nops, input, output>>

BrainNext == ConnectTo \/ NewBrainInterface \/ DeleteBrain

SpecBrain == BrainInit /\ [][BrainNext]_vars

\* C19: deleteBrain() deletes the whole network at once.  After it, every
\* neuron of the network has been deleted exactly once and the interface's
\* input and output lists are empty.
C19_DeleteBrainDeletesAll ==
    pc = "deleted" =>
        /\ fault = "none"
        /\ \A n \in Neurons : heap[n].deletes = 1 /\ ~heap[n].live
        /\ hp.inputNeurons = <<>> /\ hp.outputNeurons = <<>>

\* The lists are emptied and nothing is deleted twice.
C19_ListsCleared ==
    pc = "deleted" =>
        /\ fault = "none"
        /\ hp.inputNeurons = <<>> /\ hp.outputNeurons = <<>> /\ hp.previous = NULL

\* An output neuron is connected to nothing: its waitingFor is 0 and
\* --waitingFor != 0 returns at once, so no neuron at all is deleted.
C19_NoNeuronDeleted ==
    pc = "deleted" => \A n \in Neurons : heap[n].live /\ heap[n].deletes = 0


(***************************************************************************)
(* Perceptron worker threads (src/MLP/src/perceptron.cpp, __unix__).  In   *)
(* this part heap is the Perceptron object, hp the position of every       *)
(* worker thread in thread_run, pc the position of the client's thread,    *)
(* input its locals and output the way the last train() call ran.  A       *)
(* critical section that does not block is one step, so the two mutexes    *)
(* are free between steps; a thread waiting on a condition variable stays  *)
(* at its waiting position until a signal moves it on.  The numbers        *)
(* trained on are left out.                                                *)
(***************************************************************************)
MaxThreads == 2     \* the most worker threads a call asks for
MaxSize == 2        \* the most inputs of one train() call

Workers == 1 .. MaxThreads      \* worker t has its id in threads[t - 1]

\* the object before its constructor has run
NoPerceptron ==
    [weights |-> FALSE, threads |-> "NULL", t_count |-> 0, t_left |-> 0,
     t_exit |-> FALSE, t_inputs |-> FALSE]
NoLocals == [size |-> 0, i |-> 0, n_threads |-> 0, caller |-> "none"]

ThreadsInit ==
    /\ heap = NoPerceptron
    /\ hp = [t \in Workers |-> "none"]
    /\ fault = "none" /\ last = NoCall /\ nops = 0
    /\ pc = "new" /\ input = NoLocals /\ output = "none"

\* Perceptron::Perceptron: weights(NULL); with a parameter <= 0 it returns
\* before `threads = NULL;` and threads keeps whatever the memory held.
Perceptron_new(nInputs, indeterminate) ==
    [NoPerceptron EXCEPT !.weights = (nInputs > 0),
                         !.threads = IF nInputs > 0 THEN "NULL" ELSE indeterminate]

NewPerceptron == \E nInputs \in {0, 1}, indeterminate \in {"NULL", "wild"} :
    /\ pc = "new"
    /\ heap' = Perceptron_new(nInputs, indeterminate)
    /\ pc' = "idle"
    /\ last' = [NoCall EXCEPT !.op = "Perceptron", !.args = <<nInputs>>]
    /\ UNCHANGED <<hp, fault, nops, input, output>>

\* pthread_cond_broadcast(&cond)
Broadcast_cond(positions) ==
    [t \in Workers |-> IF positions[t] = "wait" THEN "lock" ELSE positions[t]]

\* killThreads() up to its first pthread_join; caller is where it returns to.
\* A `threads` that was never set is read as it is: with a value other than
\* NULL the call goes on to mutexes and thread ids that were never made.
KillThreads_begin(caller, n_threads) ==
    /\ IF heap.threads = "NULL"
       THEN pc' = caller /\ UNCHANGED <<heap, hp, fault>>
                /\ input' = [input EXCEPT !.caller = caller, !.n_threads = n_threads]
       ELSE IF heap.threads = "wild"
       THEN pc' = "undefined" /\ fault' = "uninitialized" /\ UNCHANGED <<heap, hp>>
                /\ input' = [input EXCEPT !.caller = caller, !.n_threads = n_threads]
       ELSE /\ heap' = [heap EXCEPT !.t_exit = TRUE]
            /\ hp' = Broadcast_cond(hp)
            /\ input' = [input EXCEPT !.caller = caller, !.n_threads = n_threads,
                                      !.i = heap.t_count - 1]
            /\ pc' = "join"
            /\ UNCHANGED fault
    /\ UNCHANGED <<nops, output>>

\* perceptron->killThreads();
KillThreads ==
    /\ pc = "idle"
    /\ last' = [NoCall EXCEPT !.op = "killThreads"]
    /\ KillThreads_begin("idle", 0)

\* perceptron->multithreadedTrain(n_threads);  it begins with killThreads()
MultithreadedTrain == \E n_threads \in 0 .. MaxThreads :
    /\ pc = "idle"
    /\ last' = [NoCall EXCEPT !.op = "multithreadedTrain", !.args = <<n_threads>>]
    /\ KillThreads_begin("create", n_threads)

\* delete perceptron;  the destructor begins with killThreads()
Destruct ==
    /\ pc = "idle"
    /\ last' = [NoCall EXCEPT !.op = "~Perceptron"]
    /\ KillThreads_begin("destructed", 0)

\* pthread_join(threads[i], NULL) returns once that thread has ended
Join ==
    /\ pc = "join" /\ input.i >= 0
    /\ hp[input.i + 1] = "done"
    /\ hp' = [hp EXCEPT ![input.i + 1] = "joined"]
    /\ input' = [input EXCEPT !.i = @ - 1]
    /\ UNCHANGED <<heap, fault, last, nops, pc, output>>

\* the end of killThreads(): ...destroy...; delete[] threads; threads = NULL;
KillThreads_end ==
    /\ pc = "join" /\ input.i < 0
    /\ heap' = [heap EXCEPT !.threads = "NULL"]
    /\ pc' = input.caller
    /\ UNCHANGED <<hp, fault, last, nops, input, output>>

\* the rest of multithreadedTrain, after its killThreads()
CreateThreads == \E default \in 1 .. MaxThreads :
    /\ pc = "create"
    /\ LET n == IF input.n_threads <= 0 THEN default ELSE input.n_threads
       IN  IF ~heap.weights \/ n <= 1
           THEN UNCHANGED <<heap, hp>>
           ELSE /\ heap' = [heap EXCEPT !.t_exit = FALSE, !.t_inputs = FALSE,
                                        !.threads = "array", !.t_count = n]
                /\ hp' = [t \in Workers |-> IF t <= n THEN "check" ELSE "none"]
    /\ pc' = "idle"
    /\ UNCHANGED <<fault, last, nops, input, output>>

\* while (size--) { t_inputs = ...; t_outputs = ...; pthread_cond_signal(&cond);
\*     do pthread_cond_wait(&nextc, &cond_mutex); while (t_inputs || t_outputs); }
\* pthread_mutex_unlock(&cond_mutex);
Train_feed(p, size) ==
    IF size = 0
    THEN heap' = p /\ hp' = hp /\ pc' = "end" /\ input' = [input EXCEPT !.size = 0]
    ELSE /\ heap' = [p EXCEPT !.t_inputs = TRUE]
         /\ \/ (\A t \in Workers : hp[t] # "wait") /\ hp' = hp
            \/ \E t \in Workers : hp[t] = "wait" /\ hp' = [hp EXCEPT ![t] = "lock"]
         /\ pc' = "nextc"
         /\ input' = [input EXCEPT !.size = size - 1]

\* perceptron->train(size, inputs, outputs);
Train == \E size \in 0 .. MaxSize :
    /\ pc = "idle"
    /\ last' = [NoCall EXCEPT !.op = "train", !.args = <<size>>]
    /\ IF ~heap.weights
       THEN output' = "error" /\ UNCHANGED <<heap, hp, pc, input>>
       ELSE IF heap.threads = "NULL"
       THEN output' = "single" /\ UNCHANGED <<heap, hp, pc, input>>
       ELSE output' = "threads" /\ Train_feed([heap EXCEPT !.t_left = size], size)
    /\ UNCHANGED <<fault, nops>>

\* train() woken on nextc: it has cond_mutex again and looks at t_inputs
TrainNext ==
    /\ pc = "feed"
    /\ IF heap.t_inputs
       THEN pc' = "nextc" /\ UNCHANGED <<heap, hp, input>>
       ELSE Train_feed(heap, input.size)
    /\ UNCHANGED <<fault, last, nops, output>>

\* pthread_mutex_lock(&grad_protect); while (true) { if (!t_left) break;
\*     pthread_cond_wait(&wait_end, &grad_protect); } pthread_mutex_unlock(&grad_protect);
TrainEnd ==
    /\ pc = "end"
    /\ pc' = IF heap.t_left = 0 THEN "idle" ELSE "wait_end"
    /\ UNCHANGED <<hp, heap, fault, last, nops, input, output>>

\* thread_run, the thread check: the thread looks for its own id in threads[],
\* which pthread_create may not have stored yet; not finding it, it returns.
ThreadCheck(t) ==
    /\ hp[t] = "check"
    /\ \E found \in BOOLEAN : hp' = [hp EXCEPT ![t] = IF found THEN "lock" ELSE "done"]
    /\ UNCHANGED <<heap, fault, last, nops, pc, input, output>>

\* thread_run under cond_mutex: leave on t_exit, take the input there is,
\* or wait on cond
ThreadTest(t) ==
    /\ hp[t] = "lock"
    /\ IF heap.t_exit
       THEN hp' = [hp EXCEPT ![t] = "done"] /\ UNCHANGED <<heap, pc>>
       ELSE IF heap.t_inputs
       THEN /\ heap' = [heap EXCEPT !.t_inputs = FALSE]
            /\ pc' = IF pc = "nextc" THEN "feed" ELSE pc
            /\ hp' = [hp EXCEPT ![t] = "work"]
       ELSE hp' = [hp EXCEPT ![t] = "wait"] /\ UNCHANGED <<heap, pc>>
    /\ UNCHANGED <<fault, last, nops, input, output>>

\* trainSingleInput in a worker: under grad_protect, --t_left and
\* pthread_cond_signal(&wait_end)
ThreadWork(t) ==
    /\ hp[t] = "work"
    /\ heap' = [heap EXCEPT !.t_left = @ - 1]
    /\ pc' = IF pc = "wait_end" THEN "end" ELSE pc
    /\ hp' = [hp EXCEPT ![t] = "lock"]
    /\ UNCHANGED <<fault, last, nops, input, output>>

ThreadStep(t) == ThreadCheck(t) \/ ThreadTest(t) \/ ThreadWork(t)

ThreadsNext ==
    \/ NewPerceptron \/ KillThreads \/ MultithreadedTrain \/ Destruct
    \/ Join \/ KillThreads_end \/ CreateThreads
    \/ Train \/ TrainNext \/ TrainEnd
    \/ \E t \in Workers : ThreadCheck(t)
    \/ \E t \in Workers : ThreadTest(t)
    \/ \E t \in Workers : ThreadWork(t)

SpecThreads == ThreadsInit /\ [][ThreadsNext]_vars

\* The scheduler runs every thread that can run: a worker that is not
\* waiting takes its next step, and pthread_join returns once its thread
\* has ended.
SpecThreadsLive ==
    /\ SpecThreads
    /\ \A t \in Workers : WF_vars(ThreadStep(t))
    /\ WF_vars(Join \/ KillThreads_end \/ CreateThreads)

\* killThreads() has returned: called by itself, at the head of
\* multithreadedTrain(1), or from the destructor
KillReturned ==
    \/ pc = "idle" /\ last.op = "killThreads"
    \/ pc = "idle" /\ last.op = "multithreadedTrain" /\ last.args = <<1>>
    \/ pc = "destructed"

NoWorkerLeft ==
    /\ heap.threads = "NULL"
    /\ \A t \in Workers : hp[t] \in {"none", "joined"}

\* C20: killThreads() kills all workers.  Called while no train() is in
\* progress it always ends, without a failure; after it every worker thread
\* made by multithreadedTrain has left its loop and been joined, threads is
\* NULL, and a later train() runs in the calling thread alone; with no
\* worker it does nothing; multithreadedTrain(1) does the same.
C20_KillThreadsKillsAll ==
    /\ fault = "none"
    /\ KillReturned => NoWorkerLeft
    /\ (pc = "idle" /\ last.op = "train" /\ heap.threads = "NULL")
          => output \in {"single", "error"}

\* For a perceptron whose constructor ran to its end the same holds.
C20_ConstructedKillsAll ==
    heap.weights =>
        /\ fault = "none"
        /\ KillReturned => NoWorkerLeft
        /\ (pc = "idle" /\ last.op = "train" /\ heap.threads = "NULL") => output = "single"

\* ... and a killThreads() that has workers to join does end.
C20_JoinEnds == (pc = "join") ~> (pc # "join" /\ NoWorkerLeft)

\* Workers have been at work and killThreads() has joined them all.
C20_WorkersJoined ==
    /\ pc = "idle" /\ last.op = "killThreads"
    /\ \A t \in Workers : hp[t] = "joined"

\* An undefined `threads` can only belong to a perceptron with errors.
C20_WildOnlyOnError == heap.threads = "wild" => ~heap.weights


(***************************************************************************)
(* The error state of a Perceptron: the constructor with its four          *)
(* parameters, hasError() and calculate(), next to the calls above.        *)
(***************************************************************************)
Params == {-1, 0, 1}

\* Perceptron::Perceptron(nInputs, nOutputs, nHiddenSize, nHiddenLayers):
\* the four members are set in the initialiser list, weights only when
\* all four are > 0, and threads only on that path too
Perceptron_construct(nInputs, nOutputs, nHiddenSize, nHiddenLayers, indeterminate) ==
    LET refused == (nInputs <= 0) \/ (nOutputs <= 0) \/ (nHiddenSize <= 0)
                       \/ (nHiddenLayers <= 0)
    IN  [weights |-> ~refused,
         threads |-> IF refused THEN indeterminate ELSE "NULL",
         t_count |-> 0, t_left |-> 0, t_exit |-> FALSE, t_inputs |-> FALSE,
         nInputs |-> nInputs, nOutputs |-> nOutputs,
         nHiddenSize |-> nHiddenSize, nHiddenLayers |-> nHiddenLayers]

\* new Perceptron(nInputs, nOutputs, nHiddenSize, nHiddenLayers)
NewPerceptronOf ==
    \E nInputs \in Params, nOutputs \in Params, nHiddenSize \in Params,
       nHiddenLayers \in Params, indeterminate \in {"NULL", "wild"} :
    /\ pc = "new"
    /\ heap' = Perceptron_construct(nInputs, nOutputs, nHiddenSize, nHiddenLayers,
                                    indeterminate)
    /\ pc' = "idle"
    /\ last' = [NoCall EXCEPT !.op = "Perceptron"]
    /\ UNCHANGED <<hp, fault, nops, input, output>>

\* perceptron->hasError(): return !weights;
HasError ==
    /\ pc = "idle"
    /\ last' = [NoCall EXCEPT !.op = "hasError"]
    /\ output' = IF ~heap.weights THEN "true" ELSE "false"
    /\ UNCHANGED <<hp, heap, fault, nops, pc, input>>

\* perceptron->calculate(input): if (!weights) return NULL; ... return outputs;
Calculate ==
    /\ pc = "idle"
    /\ last' = [NoCall EXCEPT !.op = "calculate"]
    /\ output' = IF ~heap.weights THEN "NULL" ELSE "outputs"
    /\ UNCHANGED <<hp, heap, fault, nops, pc, input>>

ErrorNext ==
    \/ NewPerceptronOf \/ HasError \/ Calculate
    \/ KillThreads \/ MultithreadedTrain \/ Destruct
    \/ Join \/ KillThreads_end \/ CreateThreads
    \/ Train \/ TrainNext \/ TrainEnd
    \/ \E t \in Workers : ThreadStep(t)

SpecError == ThreadsInit /\ [][ErrorNext]_vars

\* one of the four constructor parameters was <= 0
BadParams ==
    \/ heap.nInputs <= 0 \/ heap.nOutputs <= 0
    \/ heap.nHiddenSize <= 0 \/ heap.nHiddenLayers <= 0

\* what the calls answer on a perceptron with errors
ErrorAnswers ==
    /\ last.op = "hasError" => (output = "true" <=> BadParams)
    /\ BadParams =>
          /\ last.op = "train" => output = "error"
          /\ last.op = "calculate" => output = "NULL"
          /\ \A t \in Workers : hp[t] = "none"
          /\ heap.threads # "array"

\* C21: hasError() is true exactly when a constructor parameter was <= 0;
\* on such an object train() returns -1, calculate() returns NULL,
\* multithreadedTrain() starts no thread, and no call, the destructor
\* included, reads thread or synchronisation state that was never set.
C21_ErrorState == pc # "new" => (ErrorAnswers /\ fault = "none")

\* The answers alone are as the claim has them.
C21_Answers == pc # "new" => ErrorAnswers

\* The calls that do not begin with killThreads() read nothing undefined.
C21_OtherCallsDefined ==
    (pc # "new" /\ last.op \in {"Perceptron", "hasError", "calculate", "train"})
        => fault = "none"


(***************************************************************************)
(* Exclusive ownership after a mutating call (SpecH).                      *)
(***************************************************************************)
\* the block last.x pointed at before the call, and its count then
BlockBefore == last.pre.hp[last.x]
CountBefore == last.pre.heap[BlockBefore].n

\* C22: exclusive ownership after mutation.  When a mutating call returns on
\* a handle that is not Null, the handle's block has refcount 1.  detach()
\* (met alone in data()) changes nothing on a Null handle or on refcount 1;
\* on refcount n > 1 the old block is left with n - 1 and its contents, and
\* the handle has a new block of the same shape and contents.
C22_ExclusiveOwnership ==
    (last.op \in Mutators /\ fault = "none") =>
        /\ hp[last.x] # NULL => heap[hp[last.x]].n = 1
        /\ (BlockBefore # NULL /\ BlockBefore # Dead) =>
              IF CountBefore > 1
              THEN /\ hp[last.x] # BlockBefore
                   /\ heap[BlockBefore].n = CountBefore - 1
                   /\ heap[BlockBefore].d = last.pre.heap[BlockBefore].d
                   /\ last.op = "data" =>
                         heap[hp[last.x]].d = last.pre.heap[BlockBefore].d
              ELSE last.op = "data" => (hp = last.pre.hp /\ heap = last.pre.heap)
        /\ (BlockBefore = NULL /\ last.op = "data") =>
              (hp = last.pre.hp /\ heap = last.pre.heap)

\* data() has detached a handle from a block it shared with another.
C22_Witness ==
    /\ last.op = "data" /\ fault = "none"
    /\ BlockBefore # NULL /\ BlockBefore # Dead
    /\ CountBefore = 2
    /\ heap[BlockBefore].n = 1 /\ heap[hp[last.x]].n = 1
    /\ hp[last.x] # BlockBefore

\* ... and, in another state, a kernel call went through a shared handle.
C22_MutatedShared ==
    /\ last.op \in (Mutators \ {"data"}) /\ fault = "none"
    /\ BlockBefore # NULL /\ BlockBefore # Dead
    /\ CountBefore > 1


(***************************************************************************)
(* cut() with any offsets and sizes: negative, zero, and larger than       *)
(* either matrix.                                                          *)
(***************************************************************************)
ClampOffsets == {0 - MaxOffset, 0, MaxOffset, MaxDim + 1}
ClampSizes == {0 - MaxOffset, 0, MaxOffset, INT_MAX}

\* x.cut(y, di, dj, si, sj, sm, sn) with si >= 0 and sj >= 0
CutAny == \E x \in DOMAIN hp, y \in DOMAIN hp :
    /\ Shared(Store, x) /\ Shared(Store, y) /\ hp[x] # hp[y]
    /\ \E di \in ClampOffsets, dj \in ClampOffsets,
          si \in ClampOffsets, sj \in ClampOffsets,
          sm \in ClampSizes, sn \in ClampSizes, junk \in Ints({MaxJunk}) :
            /\ si >= 0 /\ sj >= 0
            /\ Call(Matrix_cut(Store, x, y, di, dj, si, sj, sm, sn, junk),
                    "cut", x, y, 0, <<di, dj, si, sj, sm, sn>>)

SpecClamp == CutInit /\ [][CutAt \/ CutAny]_vars

\* the overlap of the requested region with both extents: rows and columns
ClampRows(M, O, di, si, sm) ==
    Min(sm - Max(0 - di, 0), Min(O.m - (si + Max(0 - di, 0)), M.m - Max(di, 0)))
ClampCols(M, O, dj, sj, sn) ==
    Min(sn - Max(0 - dj, 0), Min(O.n - (sj + Max(0 - dj, 0)), M.n - Max(dj, 0)))

CutOnTwoBlocks == last.op = "cut" /\ last.pre.hp[last.x] # last.pre.hp[last.y]

\* C23: cut stays inside both buffers.  For si >= 0, sj >= 0 and any di, dj,
\* sm, sn, the call reads only cells of the source and writes only cells of
\* the destination; what is copied is the overlap of the requested region
\* with both extents, and with an empty overlap the destination is unchanged.
C23_CutStaysInside ==
    CutOnTwoBlocks =>
        /\ fault = "none"
        /\ Now(last.x).d = CutExpected(Before(last.x).d, Before(last.y).d,
                                       last.args[1], last.args[2], last.args[3],
                                       last.args[4], last.args[5], last.args[6])
        /\ (\/ ClampRows(Before(last.x).d, Before(last.y).d,
                         last.args[1], last.args[3], last.args[5]) <= 0
            \/ ClampCols(Before(last.x).d, Before(last.y).d,
                         last.args[2], last.args[4], last.args[6]) <= 0)
              => Now(last.x) = Before(last.x)

\* With di >= 0 and dj >= 0 the call does stay inside and copies the overlap.
C23_NonNegativeInside ==
    (CutOnTwoBlocks /\ last.args[1] >= 0 /\ last.args[2] >= 0) =>
        /\ fault = "none"
        /\ Now(last.x).d = CutExpected(Before(last.x).d, Before(last.y).d,
                                       last.args[1], last.args[2], last.args[3],
                                       last.args[4], last.args[5], last.args[6])


(***************************************************************************)
(* partialProduct(): one call, on a target that has a block of its own and *)
(* holds negative elements no product of the factors is equal to.          *)
(***************************************************************************)
\* the m x n matrix of the elements -MaxJunk, -MaxJunk - 1, ...
Filled(m, n) ==
    [m |-> m, n |-> n, data |-> [x \in 0 .. m * n - 1 |-> RInt(0 - MaxJunk - x)]]

\* Matrix<T> m1(..), m2(..), p(m1.countRows(), m2.countCols()), all filled
BlockInit ==
    /\ OneCallLeft
    /\ \E AB \in SmallShapes :
          /\ hp = [h \in Objects |-> h]
          /\ heap = [b \in ObjectBlocks |->
                        IF b = 1 THEN Block(1, AB[1])
                        ELSE IF b = 2 THEN Block(1, AB[2])
                        ELSE IF b = 3 THEN Block(1, Filled(AB[1].m, AB[2].n))
                        ELSE FreeBlock]

SpecBlock == BlockInit /\ [][PartialProduct]_vars

\* C24: partialProduct(m1, m2, i1, i2, j1, j2) writes only the cells (i, j)
\* of self with i1 <= i <= i2 and j1 <= j <= j2 and sets each to the sum over
\* k of m1(i,k) * m2(k,j); every other cell of self, self's shape, and m1 and
\* m2 are as before the call.
C24_PartialProductFrame ==
    last.op = "partialProduct" =>
        /\ fault = "none"
        /\ Now(last.x).d.m = Before(last.x).d.m /\ Now(last.x).d.n = Before(last.x).d.n
        /\ \A c \in DOMAIN Now(last.x).d.data :
              Now(last.x).d.data[c] =
                 IF InBlock(c, Now(last.x).d.n, last.args)
                 THEN MatProduct(Before(last.y).d, Before(last.z).d).data[c]
                 ELSE Before(last.x).d.data[c]
        /\ \A h \in DOMAIN hp \ {last.x} : Now(h) = Before(h)

\* A call on a block that neither starts at column 0 nor ends at the last
\* row: the block's cells changed and the cells before and below it did not.
C24_Witness ==
    /\ last.op = "partialProduct" /\ fault = "none"
    /\ last.args = <<0, 0, 1, 1>>
    /\ Now(last.x).d.m = 2 /\ Now(last.x).d.n = 2
    /\ Now(last.x).d.data[1] # Before(last.x).d.data[1]
    /\ Now(last.x).d.data[0] = Before(last.x).d.data[0]
    /\ Now(last.x).d.data[3] = Before(last.x).d.data[3]


(***************************************************************************)
(* The constructors of Matrix<T> with any m and n, the one that adopts a   *)
(* raw array included, and the handles they leave behind.                  *)
(***************************************************************************)
ShapeArgs == -1 .. MaxDim

\* StaticMatrix(int m, int n, T *data): _m(m), _n(n), _data(data);
\* cells is what the array at data holds
StaticMatrix_adopt(m, n, cells) == [m |-> m, n |-> n, data |-> cells]

\* Matrix::Matrix(int m, int n, T *data).  Only the kernel's constructor
\* looks at m and n, in its ASSERT.
Matrix_adopt(st, x, m, n, data, cells, asserts) ==
    IF data # NULL
    THEN IF asserts /\ ~((m > 0) /\ (n > 0)) THEN Failed(st)
         ELSE IF asserts /\ ~ASSERT_INT_mul(m, n) THEN Failed(st)
         ELSE NewData(st, x, StaticMatrix_adopt(m, n, cells))
    ELSE [st EXCEPT !.hp[x] = NULL]

\* Matrix::countRows(), Matrix::countCols()
Matrix_countRows(st, x) == IF st.hp[x] # NULL THEN Kernel(st, x).m ELSE 0
Matrix_countCols(st, x) == IF st.hp[x] # NULL THEN Kernel(st, x).n ELSE 0

\* Matrix<T> x(m, n);
ConstructAny == \E x \in DOMAIN hp, m \in ShapeArgs, n \in ShapeArgs :
    /\ ~Alive(Store, x)
    /\ Call(Matrix_zero(Store, x, m, n), "construct", x, 0, 0, <<m, n>>)

\* Matrix<T> x(m, n, value);
ConstructValueAny == \E x \in DOMAIN hp, m \in ShapeArgs, n \in ShapeArgs, v \in Vals :
    /\ ~Alive(Store, x)
    /\ Call(Matrix_value(Store, x, m, n, v), "constructValue", x, 0, 0, <<m, n>>)

\* Matrix<T> x(m, n, data);  data is NULL or points to an array the caller made
Adopt == \E x \in DOMAIN hp, m \in ShapeArgs, n \in ShapeArgs, data \in {NULL, 1},
            asserts \in BOOLEAN :
    /\ ~Alive(Store, x)
    /\ Call(Matrix_adopt(Store, x, m, n, data, [c \in 0 .. m * n - 1 |-> RInt(MaxVal)],
                         asserts),
            "adopt", x, 0, 0, <<m, n, data # NULL, asserts>>)

HandleNext ==
    \/ Default \/ ConstructAny \/ ConstructValueAny \/ Adopt
    \/ Copy \/ Assign \/ Destroy

SpecHandle == HInit /\ [][HandleNext]_vars

\* what the sized constructors and the adoption of no array leave
ConstructorStates ==
    /\ (last.op \in {"construct", "constructValue"} /\ fault = "none") =>
          /\ hp[last.x] = NULL <=> (last.args[1] <= 0 \/ last.args[2] <= 0)
          /\ hp[last.x] # NULL =>
                /\ Matrix_countRows(Store, last.x) = last.args[1]
                /\ Matrix_countCols(Store, last.x) = last.args[2]
    /\ (last.op = "adopt" /\ ~last.args[3]) => hp[last.x] = NULL

\* C25: shape invariant of the handle state machine.  Matrix(m, n) and
\* Matrix(m, n, value) give Null iff m <= 0 or n <= 0 and otherwise a Shared
\* handle of m rows and n columns; adopting a null array gives Null; after
\* any calls, adoptions with any m and n included, every Shared handle has
\* rows > 0 and cols > 0 and a Null handle reports 0 rows and 0 columns.
C25_ShapeInvariant ==
    /\ ConstructorStates
    /\ \A h \in DOMAIN hp :
          /\ Shared(Store, h) =>
                Matrix_countRows(Store, h) > 0 /\ Matrix_countCols(Store, h) > 0
          /\ (Alive(Store, h) /\ hp[h] = NULL) =>
                Matrix_countRows(Store, h) = 0 /\ Matrix_countCols(Store, h) = 0

\* The sized constructors and the adoption of no array do as the claim says.
C25_Constructors == ConstructorStates

\* Where ASSERT is kept, adopting an array with m <= 0 or n <= 0 fails.
C25_AdoptChecked ==
    (/\ last.op = "adopt" /\ last.args[3] /\ last.args[4]
     /\ (last.args[1] <= 0 \/ last.args[2] <= 0)) => fault = "assert"


(***************************************************************************)
(* pseudoInverse(negligible), one turn of its elimination loop at a time.  *)
(* input holds the locals of the call: x, y, lindex, current_index, the    *)
(* array indexes[_n] and the elements of _data as worked on so far; part   *)
(* is what a byte-wise swap makes of an element it covers in part.         *)
(***************************************************************************)
\* indexes[at] = v on an array of n entries; past: the write fell outside
Indexes_store(L, n, at, v) ==
    IF at >= 0 /\ at < n THEN [L EXCEPT !.indexes[at] = v]
    ELSE [L EXCEPT !.past = TRUE]

\* The negligible-column branch without current_index++.
Pinv_negligible_noCount(L, n) ==
    [Indexes_store(L, n, L.current_index, L.y)
        EXCEPT !.x = L.x + 1,
               !.lindex = IF L.x + 1 >= n THEN L.lindex ELSE L.lindex + 1,
               !.broke = (L.x + 1 >= n)]

\* if (maxAbs <= negligible) { indexes[current_index++] = y;
\*     if (++x >= _n) break; ++lindex; continue; }
Pinv_negligible(L, n) ==
    [Indexes_store(L, n, L.current_index, L.y)
        EXCEPT !.current_index = L.current_index + 1,
               !.x = L.x + 1,
               !.lindex = IF L.x + 1 >= n THEN L.lindex ELSE L.lindex + 1,
               !.broke = (L.x + 1 >= n)]

\* one turn of while (true) { ... } of pseudoInverse
Pinv_iteration(L, m, n, negligible, part) ==
    LET scan == Pinv_pivot(L.data, n, n * m, L.lindex, L.y, ABS(L.data[L.lindex]),
                           L.lindex, L.y)
    IN  IF ~RGt(scan.maxAbs, negligible) THEN Pinv_negligible(L, n)
        ELSE LET itmp1 == m * L.y
                 swapped == IF scan.itmp4 # L.lindex
                            THEN Pinv_swap(L.data, L.lindex, scan.itmp4, n - L.x, part)
                            ELSE L.data
                 maxAbs == swapped[L.lindex]
                 scaled == IF maxAbs # One
                           THEN Pinv_scale(swapped, L.lindex + n - L.x, L.lindex, maxAbs)
                           ELSE swapped
                 done == Pinv_eliminate(scaled, m, n, L.x, L.lindex, n * m + L.x, m * m)
                 broke == (L.x + 1 >= n) \/ (L.y + 1 >= m)
             IN  [L EXCEPT !.data = done,
                           !.oob = L.oob \/ (maxAbs # One /\ itmp1 + m >= m * m),
                           !.x = L.x + 1, !.y = L.y + 1,
                           !.lindex = IF broke THEN L.lindex ELSE L.lindex + n + 1,
                           !.broke = broke]

\* what follows the loop: rank 0 zeroes _data and exchanges _m and _n; any
\* other rank stores -1 and then y at indexes[current_index] and returns
Pinv_finish(L, M) ==
    IF L.y = 0
    THEN [L |-> L, d |-> [m |-> M.n, n |-> M.m, data |-> [c \in DOMAIN M.data |-> Zero]]]
    ELSE [L |-> Indexes_store(Indexes_store(L, M.n, L.current_index, -1),
                              M.n, L.current_index, L.y),
          d |-> [M EXCEPT !.data = L.data]]

Negligibles == {Zero, One}

RankInit ==
    /\ fault = "none" /\ last = NoCall /\ nops = 0
    /\ pc = "start" /\ input = <<>>
    /\ \E negligible \in Negligibles : output = negligible
    /\ \E A \in PinvInputs :
          /\ hp = [h \in {1} |-> 1]
          /\ heap = [b \in {1} |-> Block(1, A)]

\* a.pseudoInverse(negligible): up to the loop
PinvBegin == \E kept \in BOOLEAN :
    /\ pc = "start"
    /\ input' = [part |-> [kept |-> kept, v |-> RInt(MaxJunk)],
                 data |-> K(1).data, x |-> 0, y |-> 0, lindex |-> 0, current_index |-> 0,
                 indexes |-> [i \in 0 .. K(1).n - 1 |-> NULL],
                 oob |-> FALSE, past |-> FALSE, broke |-> FALSE]
    /\ last' = [op |-> "pseudoInverse", x |-> 1, y |-> 0, z |-> 0, args |-> <<>>,
                pre |-> [hp |-> hp, heap |-> heap]]
    /\ pc' = "loop"
    /\ UNCHANGED <<hp, heap, fault, nops, output>>

\* one turn of the loop
PinvTurn ==
    /\ pc = "loop" /\ ~input.broke
    /\ input' = Pinv_iteration(input, K(1).m, K(1).n, output, input.part)
    /\ UNCHANGED <<hp, heap, fault, last, nops, pc, output>>

\* after the break, to the return
PinvEnd ==
    /\ pc = "loop" /\ input.broke
    /\ \E r \in {Pinv_finish(input, K(1))} :
          /\ input' = r.L
          /\ heap' = [heap EXCEPT ![1].d = r.d]
          /\ fault' = IF r.L.oob \/ r.L.past THEN "out_of_bounds" ELSE "none"
    /\ pc' = "returned"
    /\ UNCHANGED <<hp, last, nops, output>>

RankNext == PinvBegin \/ PinvTurn \/ PinvEnd

SpecRank == RankInit /\ [][RankNext]_vars

\* every element has a magnitude of at most negligible
AllNegligible(A, negligible) == \A c \in DOMAIN A.data : ~RGt(ABS(A.data[c]), negligible)

\* C26: zero-rank pseudo-inverse.  An m x n matrix whose elements all have a
\* magnitude <= negligible is left as the n x m zero matrix; in the
\* elimination the pivots found are the columns processed less the
\* rank-deficient entries recorded (y == x - current_index), and the index
\* list is never written past its n entries.
C26_ZeroRank ==
    /\ pc \in {"loop", "returned"} =>
          /\ input.y = input.x - input.current_index
          /\ ~input.past
          /\ input.current_index <= Before(1).d.n
    /\ (pc = "returned" /\ AllNegligible(Before(1).d, output)) =>
          /\ fault = "none"
          /\ Now(1).d.m = Before(1).d.n /\ Now(1).d.n = Before(1).d.m
          /\ IsZero(Now(1).d)

\* A 2 x 2 matrix of elements 1 and -1 with negligible = 1: both columns were
\* recorded as rank-deficient, and the object is the 2 x 2 zero matrix.
C26_Witness ==
    /\ pc = "returned" /\ output = One
    /\ Before(1).d.m = 2 /\ Before(1).d.n = 2
    /\ ~IsZero(Before(1).d) /\ AllNegligible(Before(1).d, output)
    /\ input.current_index = 2 /\ input.x = 2 /\ input.y = 0
    /\ input.indexes = [i \in 0 .. 1 |-> 0]
    /\ IsZero(Now(1).d)

\* ... and, in another state, a column was recorded between two pivots' turns.
C26_MixedColumns ==
    /\ pc = "loop" /\ input.y > 0 /\ input.current_index > 0

\* Turn by turn the loop ends where the whole call ends.
C26_SameAsCall ==
    pc = "returned" =>
        /\ Now(1).d = StaticMatrix_pseudoInverse(Before(1).d, output, input.part).d
        /\ (fault # "none") = StaticMatrix_pseudoInverse(Before(1).d, output, input.part).oob


(***************************************************************************)
(* Threaded training, statement by statement (perceptron.cpp 241-273,      *)
(* 324-414, 418-460, 469-587).  heap is the Perceptron object with its two *)
(* mutexes (the thread that holds each) and the ids stored in threads[];   *)
(* hp is every worker's position in thread_run and its my_input; pc is the *)
(* caller's position, input its locals; output records which workers took  *)
(* each sample of the call in progress.  A sample is named by its index in *)
(* inputs[] plus one, so that no sample pointer is null.  grad and err are *)
(* kept as the number of contributions added for each sample since the     *)
(* last weight update.                                                     *)
(***************************************************************************)
MaxCalls == 2       \* train() calls per run

Samples == 1 .. MaxSize

NoThread == <<>>
MainThread == <<"main">>
Worker(t) == <<"worker", t>>

NoSample == [s \in Samples |-> 0]
NoTaker == [s \in Samples |-> <<>>]

\* the object once `new Perceptron(...)` has returned without error
Trainable ==
    [threads |-> "NULL", ids |-> [t \in Workers |-> FALSE], t_count |-> 0, t_left |-> 0,
     t_exit |-> FALSE, t_inputs |-> NULL, t_outputs |-> NULL,
     cond_mutex |-> NoThread, grad_protect |-> NoThread,
     grad |-> NoSample, err |-> 0]

HandOffInit ==
    /\ heap = Trainable
    /\ hp = [t \in Workers |-> [at |-> "none", my_input |-> NULL]]
    /\ pc = "constructed"
    /\ input = [size |-> 0, total |-> 0, n_threads |-> 0]
    /\ output = [taken |-> NoTaker, overwritten |-> FALSE, used |-> NoSample]
    /\ fault = "none" /\ last = NoCall /\ nops = 0

Waiting(at) == {t \in Workers : hp[t].at = at}

\* pthread_cond_signal(&cond): one of the workers waiting on cond, if any
Signal_cond(positions, t) ==
    IF positions[t].at = "wait_cond" THEN [positions EXCEPT ![t].at = "lock_cond"]
    ELSE positions

\* pthread_cond_signal(&nextc) and pthread_cond_signal(&wait_end): train()
\* is the only thread that waits on either
Signal_nextc(position) == IF position = "wait_nextc" THEN "relock" ELSE position
Signal_wait_end(position) == IF position = "wait_end" THEN "lock_grad" ELSE position

\* perceptron->multithreadedTrain(n_threads) with n_threads >= 2, up to
\* threads = new pthread_t[(t_count = n_threads)];  (killThreads() finds
\* threads NULL and returns)
MultithreadedTrain_begin == \E n_threads \in 2 .. MaxThreads :
    /\ pc = "constructed"
    /\ heap' = [heap EXCEPT !.t_exit = FALSE, !.t_inputs = NULL, !.t_outputs = NULL,
                            !.threads = "array", !.t_count = n_threads]
    /\ input' = [input EXCEPT !.n_threads = n_threads]
    /\ last' = [NoCall EXCEPT !.op = "multithreadedTrain", !.args = <<n_threads>>]
    /\ pc' = "create"
    /\ UNCHANGED <<hp, fault, nops, output>>

\* while (--n_threads >= 0) pthread_create(&threads[n_threads], ...): the
\* new thread starts ...
Pthread_create ==
    /\ pc = "create" /\ input.n_threads - 1 >= 0
    /\ input' = [input EXCEPT !.n_threads = @ - 1]
    /\ hp' = [hp EXCEPT ![input.n_threads].at = "check"]
    /\ pc' = "store"
    /\ UNCHANGED <<heap, fault, last, nops, output>>

\* ... and its id is stored in threads[n_threads] before the call returns
Pthread_store ==
    /\ pc = "store"
    /\ heap' = [heap EXCEPT !.ids[input.n_threads + 1] = TRUE]
    /\ pc' = "create"
    /\ UNCHANGED <<hp, fault, last, nops, input, output>>

MultithreadedTrain_end ==
    /\ pc = "create" /\ input.n_threads - 1 < 0
    /\ pc' = "idle"
    /\ UNCHANGED <<hp, heap, fault, last, nops, input, output>>

\* perceptron->train(size, inputs, outputs) up to t_left = size;
Train_begin == \E size \in 0 .. MaxSize :
    /\ pc = "idle" /\ nops < MaxCalls
    /\ heap' = [heap EXCEPT !.err = 0, !.t_left = size]
    /\ input' = [input EXCEPT !.size = size, !.total = size]
    /\ output' = [taken |-> NoTaker, overwritten |-> FALSE, used |-> NoSample]
    /\ last' = [NoCall EXCEPT !.op = "train", !.args = <<size>>]
    /\ nops' = nops + 1
    /\ pc' = "lock_cond"
    /\ UNCHANGED <<hp, fault>>

\* pthread_mutex_lock(&cond_mutex);
Train_lockCond ==
    /\ pc = "lock_cond" /\ heap.cond_mutex = NoThread
    /\ heap' = [heap EXCEPT !.cond_mutex = MainThread]
    /\ pc' = "put"
    /\ UNCHANGED <<hp, fault, last, nops, input, output>>

\* while (size--) { t_inputs = inputs[size]; t_outputs = outputs[size];
\*     pthread_cond_signal(&cond); pthread_cond_wait(&nextc, &cond_mutex) ...
\* and, when size is 0, pthread_mutex_unlock(&cond_mutex);
Train_put ==
    /\ pc = "put"
    /\ IF input.size = 0
       THEN /\ heap' = [heap EXCEPT !.cond_mutex = NoThread]
            /\ pc' = "lock_grad"
            /\ UNCHANGED <<hp, output>>
       ELSE /\ heap' = [heap EXCEPT !.t_inputs = input.size, !.t_outputs = input.size,
                                    !.cond_mutex = NoThread]
            /\ output' = [output EXCEPT !.overwritten =
                              @ \/ heap.t_inputs # NULL \/ heap.t_outputs # NULL]
            /\ IF Waiting("wait_cond") = {} THEN hp' = hp
               ELSE \E t \in Waiting("wait_cond") : hp' = Signal_cond(hp, t)
            /\ pc' = "wait_nextc"
    /\ input' = [input EXCEPT !.size = @ - 1]
    /\ UNCHANGED <<fault, last, nops>>

\* pthread_cond_wait(&nextc, &cond_mutex) returns with the mutex;
\* while (t_inputs || t_outputs) sends it back to wait
Train_relock ==
    /\ pc = "relock" /\ heap.cond_mutex = NoThread
    /\ IF heap.t_inputs # NULL \/ heap.t_outputs # NULL
       THEN pc' = "wait_nextc" /\ UNCHANGED heap
       ELSE pc' = "put" /\ heap' = [heap EXCEPT !.cond_mutex = MainThread]
    /\ UNCHANGED <<hp, fault, last, nops, input, output>>

\* pthread_mutex_lock(&grad_protect);  (also on the return of
\* pthread_cond_wait(&wait_end, &grad_protect))
Train_lockGrad ==
    /\ pc = "lock_grad" /\ heap.grad_protect = NoThread
    /\ heap' = [heap EXCEPT !.grad_protect = MainThread]
    /\ pc' = "test_left"
    /\ UNCHANGED <<hp, fault, last, nops, input, output>>

\* if (!t_left) break; pthread_cond_wait(&wait_end, &grad_protect);
\* and after the loop pthread_mutex_unlock(&grad_protect);
Train_testLeft ==
    /\ pc = "test_left"
    /\ heap' = [heap EXCEPT !.grad_protect = NoThread]
    /\ pc' = IF heap.t_left = 0 THEN "update" ELSE "wait_end"
    /\ UNCHANGED <<hp, fault, last, nops, input, output>>

\* trainSingleWeight(i, j) for every weight: weights[i1][i2] -= tmp * g;
\* former_grad[i1][i2] = g; grad[i1][i2] = 0;  and return err;
Train_update ==
    /\ pc = "update"
    /\ output' = [output EXCEPT !.used = heap.grad]
    /\ heap' = [heap EXCEPT !.grad = NoSample]
    /\ pc' = "idle"
    /\ UNCHANGED <<hp, fault, last, nops, input>>

\* thread_run, the thread check: the thread looks for its own id in
\* threads[]; an entry pthread_create has not stored yet is read as
\* whatever the new array holds
Thread_check(t) ==
    /\ hp[t].at = "check"
    /\ \E found \in (IF heap.ids[t] THEN {TRUE} ELSE BOOLEAN) :
          hp' = [hp EXCEPT ![t].at = IF found THEN "lock_cond" ELSE "returned"]
    /\ UNCHANGED <<heap, fault, last, nops, pc, input, output>>

\* pthread_mutex_lock(&my_this->cond_mutex);  (also on the return of
\* pthread_cond_wait(&my_this->cond, &my_this->cond_mutex))
Thread_lockCond(t) ==
    /\ hp[t].at = "lock_cond" /\ heap.cond_mutex = NoThread
    /\ heap' = [heap EXCEPT !.cond_mutex = Worker(t)]
    /\ hp' = [hp EXCEPT ![t].at = "test"]
    /\ UNCHANGED <<fault, last, nops, pc, input, output>>

\* The slot is left as it is after my_input = t_inputs.
Thread_clear_keep(p) == p

\* my_this->t_inputs = 0; my_this->t_outputs = 0;
Thread_clear(p) == [p EXCEPT !.t_inputs = NULL, !.t_outputs = NULL]

\* under cond_mutex: if (t_exit) ... pthread_exit(NULL);
\* if (t_inputs && t_outputs) break; pthread_cond_wait(&cond, &cond_mutex);
\* and after the break: my_input = t_inputs; ...; pthread_cond_signal(&nextc);
\* pthread_mutex_unlock(&cond_mutex);
Thread_test(t) ==
    /\ hp[t].at = "test"
    /\ IF heap.t_exit
       THEN /\ hp' = [hp EXCEPT ![t].at = "exited"]
            /\ heap' = [heap EXCEPT !.cond_mutex = NoThread]
            /\ UNCHANGED <<pc, output>>
       ELSE IF heap.t_inputs # NULL /\ heap.t_outputs # NULL
       THEN /\ hp' = [hp EXCEPT ![t] = [at |-> "forward", my_input |-> heap.t_inputs]]
            /\ heap' = [Thread_clear(heap) EXCEPT !.cond_mutex = NoThread]
            /\ output' = [output EXCEPT !.taken[heap.t_inputs] = Append(@, t)]
            /\ pc' = Signal_nextc(pc)
       ELSE /\ hp' = [hp EXCEPT ![t].at = "wait_cond"]
            /\ heap' = [heap EXCEPT !.cond_mutex = NoThread]
            /\ UNCHANGED <<pc, output>>
    /\ UNCHANGED <<fault, last, nops, input>>

\* trainSingleInput up to line 537: v_data and g_data from input, output
\* and weights, without any lock
TrainSingleInput_forward(t) ==
    /\ hp[t].at = "forward"
    /\ hp' = [hp EXCEPT ![t].at = "lock_grad"]
    /\ UNCHANGED <<heap, fault, last, nops, pc, input, output>>

\* grad_protect is never taken.
TrainSingleInput_locks_never(p) == FALSE

\* if (threads)
TrainSingleInput_locks(p) == p.threads # "NULL"

\* if (threads) pthread_mutex_lock(&grad_protect);
TrainSingleInput_lock(t) ==
    /\ hp[t].at = "lock_grad"
    /\ IF TrainSingleInput_locks(heap)
       THEN /\ heap.grad_protect = NoThread
            /\ heap' = [heap EXCEPT !.grad_protect = Worker(t)]
       ELSE UNCHANGED heap
    /\ hp' = [hp EXCEPT ![t].at = "accumulate"]
    /\ UNCHANGED <<fault, last, nops, pc, input, output>>

\* aptr[offset++] += ...;  for every layer of grad, and err += my_err;
TrainSingleInput_accumulate(t) ==
    /\ hp[t].at = "accumulate"
    /\ heap' = [heap EXCEPT !.grad[hp[t].my_input] = @ + 1, !.err = @ + 1]
    /\ hp' = [hp EXCEPT ![t].at = "left"]
    /\ UNCHANGED <<fault, last, nops, pc, input, output>>

\* if (threads) { --t_left; pthread_cond_signal(&wait_end);
\*     pthread_mutex_unlock(&grad_protect); }   and back in thread_run
TrainSingleInput_left(t) ==
    /\ hp[t].at = "left"
    /\ IF TrainSingleInput_locks(heap)
       THEN /\ heap' = [heap EXCEPT !.t_left = @ - 1, !.grad_protect = NoThread]
            /\ pc' = Signal_wait_end(pc)
       ELSE UNCHANGED <<heap, pc>>
    /\ hp' = [hp EXCEPT ![t] = [at |-> "lock_cond", my_input |-> NULL]]
    /\ UNCHANGED <<fault, last, nops, input, output>>

\* pthread_cond_wait may return without a signal
Spurious_cond(t) ==
    /\ hp[t].at = "wait_cond"
    /\ hp' = [hp EXCEPT ![t].at = "lock_cond"]
    /\ UNCHANGED <<heap, fault, last, nops, pc, input, output>>

Spurious_main ==
    /\ pc \in {"wait_nextc", "wait_end"}
    /\ pc' = IF pc = "wait_nextc" THEN "relock" ELSE "lock_grad"
    /\ UNCHANGED <<hp, heap, fault, last, nops, input, output>>

HandOffNext ==
    \/ MultithreadedTrain_begin \/ Pthread_create \/ Pthread_store
    \/ MultithreadedTrain_end
    \/ Train_begin
    \/ Train_lockCond \/ Train_put \/ Train_relock
    \/ Train_lockGrad \/ Train_testLeft \/ Train_update
    \/ \E t \in Workers : Thread_check(t)
    \/ \E t \in Workers : Thread_lockCond(t)
    \/ \E t \in Workers : Thread_test(t)
    \/ \E t \in Workers : TrainSingleInput_forward(t)
    \/ \E t \in Workers : TrainSingleInput_lock(t)
    \/ \E t \in Workers : TrainSingleInput_accumulate(t)
    \/ \E t \in Workers : TrainSingleInput_left(t)
    \/ \E t \in Workers : Spurious_cond(t)
    \/ Spurious_main

SpecHandOff == HandOffInit /\ [][HandOffNext]_vars

\* train() is between its first statement and its return
InTrain == pc \in {"lock_cond", "put", "wait_nextc", "relock", "lock_grad", "test_left",
                   "wait_end", "update"}

\* the samples whose contribution is in grad and counted off t_left
Counted == {s \in Samples : heap.grad[s] > 0 /\ \A t \in Workers :
                ~(hp[t].at = "left" /\ hp[t].my_input = s)}

\* C27: the threaded hand-off is exactly-once.  In a train(size, ...) call
\* no sample is taken twice, two workers never hold the same sample, train()
\* never writes the slot (t_inputs, t_outputs) while it holds a sample not
\* yet taken, t_left is size less the samples counted off and never
\* negative, and when train() goes on to the weight update every one of the
\* size samples has been taken by one worker, once, its contribution is in
\* grad once, and t_left is 0.
C27_ExactlyOnce ==
    /\ ~output.overwritten
    /\ \A s \in Samples : Len(output.taken[s]) <= 1
    /\ \A t, u \in Workers :
          (t # u /\ hp[t].my_input # NULL) => hp[t].my_input # hp[u].my_input
    /\ heap.t_left >= 0
    /\ InTrain => heap.t_left = input.total - Cardinality(Counted)
    /\ (pc = "update" \/ (pc = "idle" /\ last.op = "train")) =>
          /\ heap.t_left = 0
          /\ \A s \in Samples : Len(output.taken[s]) = IF s <= input.total THEN 1 ELSE 0
          /\ heap.t_inputs = NULL /\ heap.t_outputs = NULL
    /\ pc = "update" =>
          \A s \in Samples : heap.grad[s] = IF s <= input.total THEN 1 ELSE 0
    /\ (pc = "idle" /\ last.op = "train") =>
          \A s \in Samples : output.used[s] = IF s <= input.total THEN 1 ELSE 0

\* A second train() call of MaxSize samples has returned; two workers took
\* one sample each.
C27_Witness ==
    /\ pc = "idle" /\ last.op = "train" /\ nops = MaxCalls
    /\ input.total = MaxSize
    /\ output.taken[1] # <<>> /\ output.taken[2] # <<>>
    /\ output.taken[1] # output.taken[2]
    /\ heap.t_left = 0

\* ... and in another run one worker took them all, the other having left
\* at its thread check.
C27_OneWorker ==
    /\ pc = "idle" /\ last.op = "train" /\ input.total = MaxSize
    /\ \E t \in Workers : hp[t].at = "returned"
    /\ \A s \in Samples : output.taken[s] = output.taken[1]

\* the workers inside trainSingleInput
Training == {t \in Workers : hp[t].at \in {"forward", "lock_grad", "accumulate", "left"}}

\* C29: no data race on the training state.  A worker adds to grad[] and
\* err and decrements t_left only while it holds grad_protect, so one worker
\* at a time; train() reads t_left only while holding it; and when train()
\* is at its weight update no worker is inside trainSingleInput or has a
\* sample to take, so no weight, grad, former_grad or learning rate is
\* written while a worker reads weights or writes grad.
C29_NoDataRace ==
    /\ \A t \in Workers :
          hp[t].at \in {"accumulate", "left"} => heap.grad_protect = Worker(t)
    /\ Cardinality({t \in Workers : hp[t].at \in {"accumulate", "left"}}) <= 1
    /\ pc = "test_left" => heap.grad_protect = MainThread
    /\ pc = "put" => heap.cond_mutex = MainThread
    /\ \A t \in Workers : hp[t].at = "test" => heap.cond_mutex = Worker(t)
    /\ pc \in {"update", "idle"} =>
          /\ Training = {}
          /\ heap.t_inputs = NULL /\ heap.t_outputs = NULL
          /\ heap.grad_protect = NoThread

\* One worker holds grad_protect and is adding to grad while the other,
\* done with its forward pass, stands at pthread_mutex_lock(&grad_protect).
C29_Witness ==
    /\ \E t, u \in Workers :
          /\ hp[t].at = "accumulate" /\ heap.grad_protect = Worker(t)
          /\ hp[u].at = "lock_grad"
    /\ pc \in {"lock_grad", "wait_end"}

\* ... and train() reaches its weight update after waiting on wait_end.
C29_UpdateAfterWorkers ==
    /\ pc = "update" /\ input.total = MaxSize
    /\ \A s \in Samples : heap.grad[s] = 1

\* Fair scheduling: a thread that can take its next step takes it, and a
\* thread that stands at pthread_mutex_lock gets the mutex if it is free
\* again and again.  Nothing obliges the client to call train(), or a
\* condition wait to return without a signal.
SpecHandOffLive ==
    /\ SpecHandOff
    /\ \A t \in Workers :
          /\ WF_vars(Thread_check(t) \/ Thread_test(t) \/ TrainSingleInput_forward(t)
                     \/ TrainSingleInput_accumulate(t) \/ TrainSingleInput_left(t))
          /\ SF_vars(Thread_lockCond(t))
          /\ SF_vars(TrainSingleInput_lock(t))
    /\ WF_vars(Pthread_create \/ Pthread_store \/ MultithreadedTrain_end
               \/ Train_put \/ Train_testLeft \/ Train_update)
    /\ SF_vars(Train_lockCond)
    /\ SF_vars(Train_relock)
    /\ SF_vars(Train_lockGrad)

\* the workers that passed their thread check and serve train()
Serving == {t \in Workers : hp[t].at \notin {"none", "check", "returned", "exited"}}

\* C28: threaded training terminates.  After multithreadedTrain(n), n >= 2,
\* has returned, every train() call returns under fair scheduling, in every
\* interleaving, also when workers ran their thread check before
\* multithreadedTrain had stored their ids.
C28_TrainReturns == InTrain ~> (pc = "idle")

\* With a worker that passed its thread check every train() call returns:
\* no wake-up on cond, nextc or wait_end is lost.
C28_ReturnsWithWorker == (InTrain /\ Serving # {}) ~> (pc = "idle")

\* A call without samples returns whatever the workers did.
C28_EmptyReturns == (InTrain /\ input.total = 0) ~> (pc = "idle")

\* The state in which train() stays: every worker left at its thread check,
\* train() waits on nextc with its first sample in the slot.
C28_AllWorkersReturned ==
    /\ pc = "wait_nextc" /\ heap.t_inputs # NULL
    /\ \A t \in Workers : hp[t].at = "returned"


(***************************************************************************)
(* BrainInterface::train and learn on the network of SpecBrain.  The       *)
(* operators work on [heap, propagated, updated]: the neurons, how often   *)
(* each neuron passed its influence on in the call in progress, and how    *)
(* often each connection's weight was updated in it; output keeps the two  *)
(* counts of the last call.                                                *)
(***************************************************************************)
\* waitingFor is left as the countdown ended.
Neuron_rearm_skip(st, this) == st

\* waitingFor = connectedTo;
Neuron_rearm(st, this) ==
    [st EXCEPT !.heap[this].waitingFor = st.heap[this].connectedTo]

RECURSIVE Neuron_learnMistakes(_, _)
RECURSIVE LearnMistakes_sources(_, _, _)
\* for (i = backwardConnections.length() - 1; i >= 0; --i)
\*     backwardConnections[i].e += backwardConnections.at(i).source->learnMistakes(...) * myInfluence;
\* i counts the connections still to visit.
LearnMistakes_sources(st, this, i) ==
    IF i = 0 THEN st
    ELSE LearnMistakes_sources(
             [Neuron_learnMistakes(st, st.heap[this].backwardConnections[i])
                 EXCEPT !.heap[this].e[i] = @ + 1],
             this, i - 1)

\* Neuron::learnMistakes(influence): sum += influence;
\* if (--waitingFor != 0) return a; waitingFor = connectedTo; ...; sum = 0; ...
Neuron_learnMistakes(st, this) ==
    LET s1 == [st EXCEPT !.heap[this].sum = @ + 1, !.heap[this].waitingFor = @ - 1]
    IN  IF s1.heap[this].waitingFor # 0 THEN s1
        ELSE LearnMistakes_sources(
                 [Neuron_rearm(s1, this) EXCEPT !.heap[this].sum = 0,
                                                !.propagated[this] = @ + 1],
                 this, Len(s1.heap[this].backwardConnections))

\* Neuron::train(expectedOutput)
Neuron_train(st, this) ==
    LearnMistakes_sources(st, this, Len(st.heap[this].backwardConnections))

RECURSIVE Neuron_learn(_, _)
RECURSIVE Learn_sources(_, _, _)
\* for (i = backwardConnections.length() - 1; i >= 0; --i) { ...
\*     backwardConnections[i].weight -= tmp * e; ...; backwardConnections[i].e = 0;
\*     backwardConnections.at(i).source->learn(); }
Learn_sources(st, this, i) ==
    IF i = 0 THEN st
    ELSE Learn_sources(
             Neuron_learn([st EXCEPT !.updated[this][i] = @ + 1, !.heap[this].e[i] = 0],
                          st.heap[this].backwardConnections[i]),
             this, i - 1)

\* Neuron::learn(): if (--waitingFor > 0) return; waitingFor = connectedTo; ...
Neuron_learn(st, this) ==
    LET s1 == [st EXCEPT !.heap[this].waitingFor = @ - 1]
    IN  IF s1.heap[this].waitingFor > 0 THEN s1
        ELSE Learn_sources(Neuron_rearm(s1, this), this,
                           Len(s1.heap[this].backwardConnections))

RECURSIVE Train_outputs(_, _, _)
\* for (i = outputNeurons.length() - 1; i >= 0; --i) outputNeurons.at(i)->train(...);
Train_outputs(st, outputNeurons, i) ==
    IF i = 0 THEN st
    ELSE Train_outputs(Neuron_train(st, outputNeurons[i]), outputNeurons, i - 1)

RECURSIVE Learn_outputs(_, _, _)
\* for (i = outputNeurons.length() - 1; i >= 0; --i) outputNeurons.at(i)->learn();
Learn_outputs(st, outputNeurons, i) ==
    IF i = 0 THEN st
    ELSE Learn_outputs(Neuron_learn(st, outputNeurons[i]), outputNeurons, i - 1)

\* the counts of a call that has not done anything yet
NoCounts(h) ==
    [heap |-> h, propagated |-> [n \in Neurons |-> 0],
     updated |-> [n \in Neurons |-> [i \in DOMAIN h[n].backwardConnections |-> 0]]]

\* BrainInterface::train(inputValues, outputValues): nothing is done unless
\* the two lists are as long as inputNeurons and outputNeurons
BrainInterface_train(h, brain, inputLength, outputLength) ==
    IF inputLength # Len(brain.inputNeurons) \/ outputLength # Len(brain.outputNeurons)
    THEN NoCounts(h)
    ELSE Train_outputs(NoCounts(h), brain.outputNeurons, Len(brain.outputNeurons))

\* BrainInterface::learn()
BrainInterface_learn(h, brain) ==
    Learn_outputs(NoCounts(h), brain.outputNeurons, Len(brain.outputNeurons))

\* interface->train(inputValues, outputValues);
BrainTrain == \E inputLength \in {1, 2}, outputLength \in {2} :
    /\ pc = "built" /\ nops < MaxOps
    /\ \E r \in {BrainInterface_train(heap, hp, inputLength, outputLength)} :
          /\ heap' = r.heap
          /\ output' = [propagated |-> r.propagated, updated |-> r.updated]
    /\ last' = [NoCall EXCEPT !.op = "train", !.args = <<inputLength, outputLength>>]
    /\ nops' = nops + 1
    /\ UNCHANGED <<hp, fault, pc, input>>

\* interface->learn();
BrainLearn ==
    /\ pc = "built" /\ nops < MaxOps
    /\ \E r \in {BrainInterface_learn(heap, hp)} :
          /\ heap' = r.heap
          /\ output' = [propagated |-> r.propagated, updated |-> r.updated]
    /\ last' = [NoCall EXCEPT !.op = "learn"]
    /\ nops' = nops + 1
    /\ UNCHANGED <<hp, fault, pc, input>>

LearnNext == ConnectTo \/ NewBrainInterface \/ BrainTrain \/ BrainLearn

SpecLearn == BrainInit /\ [][LearnNext]_vars


\* every connection leads on to an output neuron: a neuron that is the
\* target of a connection is an output neuron or has connections of its own
LeadsToOutputs ==
    \A n \in Neurons \ OutputLayer :
        heap[n].backwardConnections # <<>> => heap[n].connectedTo > 0

TrainReturned == pc = "built" /\ last.op = "train"
LearnReturned == pc = "built" /\ last.op = "learn"

C30_TrainWitness ==
    /\ TrainReturned /\ last.args = <<2, 2>> /\ LeadsToOutputs
    /\ heap[1].connectedTo = 3 /\ heap[3].connectedTo = 2
    /\ output.propagated[3] = 1 /\ output.propagated[1] = 1
    /\ heap[3].e = <<2, 2>>

\* Without the precondition the counters are left off: the hidden neuron
\* receives from an input and leads nowhere, and that input, which also
\* feeds an output, is left waiting for the contribution that never comes.
C30_DeadEnd ==
    /\ TrainReturned /\ ~LeadsToOutputs
    /\ \E n \in InputLayer : heap[n].waitingFor # heap[n].connectedTo /\ heap[n].sum # 0

====
